---- MODULE Spec2Model ----
(***************************************************************************)
(* Trade Risk & Execution Engine of the BSC token sniper.                  *)
(*                                                                         *)
(* The module models the security screening pipeline (analyze_token and    *)
(* the stage functions it calls), the two callers that turn an accepted    *)
(* analysis into a buy (handle_new_pair, run_token_sniper) and the         *)
(* persistence rows they write (blacklisted_tokens, portfolio,             *)
(* transactions).                                                          *)
(*                                                                         *)
(* Conventions                                                             *)
(*  - Text is a tuple of one-character strings, so that lower() and the    *)
(*    Python "in" substring test are computed, not assumed.                *)
(*  - Bytecode is a tuple of bytes (0..255); HexBytes.hex() is computed.   *)
(*  - Base-asset amounts are counted in hundredths of a BNB; from_wei is   *)
(*    exact (Decimal), so the comparison with MIN_LIQUIDITY is exact.      *)
(*  - Chain reads may raise (timeout or another error) on any attempt;     *)
(*    the store (sqlite) calls succeed.                                    *)
(***************************************************************************)
EXTENDS Integers, Sequences, FiniteSets, TLC

VARIABLES
    pc,            \* position of the discovery / single-token handler
    req,           \* the request being handled: mode, address as passed, amount
    chain,         \* on-chain and explorer facts of the token under analysis
    loc,           \* locals of analyze_token
    trace,         \* stage calls made by the current analyze_token run, in order
    result,        \* what analyze_token returned to its caller
    buy,           \* what execute_buy returned, and what it broadcast
    blacklist,     \* table blacklisted_tokens: address -> [symbol, reason]
    portfolio,     \* table portfolio, in insertion order
    transactions,  \* table transactions, in insertion order
    sell,          \* the last execute_sell call: its arguments, attempts and outcome
    sweep,         \* monitor_portfolio: the entries it read and how far it has got
    clock,         \* wall-clock time, in hours
    strategy,      \* the last call of the profit-taking and queueing functions
    threads,       \* the threads of the running process and where each stands
    wallet         \* the wallet on the chain: its transaction count, its broadcasts

\* what the direct calls and the running process add to the state
more_vars == <<strategy, threads, wallet>>

\* what the execution and exit paths add to the state of the screening
exec_vars == <<sell, sweep, clock, more_vars>>

vars == <<pc, req, chain, loc, trace, result, buy, blacklist, portfolio, transactions,
          sell, sweep, clock, strategy, threads, wallet>>

None == "None"

(***************************************************************************)
(* Bounds of the model                                                     *)
(***************************************************************************)
\* rows the portfolio table may hold before no further request is handled
MaxPositions == 1

(***************************************************************************)
(* Program constants                                                       *)
(***************************************************************************)
\* default of the max_retries parameter of every retry loop
max_retries == 3
\* config.MIN_LIQUIDITY: 5 BNB, in hundredths of a BNB
MIN_LIQUIDITY == 500
\* config.MAX_INVESTMENT_PER_TOKEN: 0.05 BNB, in hundredths of a BNB
MAX_INVESTMENT_PER_TOKEN == 5
\* config.MIN_SUCCESSFUL_SELLS
MIN_SUCCESSFUL_SELLS == 3
\* config.TAKE_PROFIT_PERCENTAGE, config.STOP_LOSS_PERCENTAGE
TAKE_PROFIT_PERCENTAGE == 20
STOP_LOSS_PERCENTAGE == 10
\* config.ASSEMBLY_CHECK_ENABLED, config.HONEYPOT_CHECK_ENABLED (defaults)
ASSEMBLY_CHECK_ENABLED == TRUE
HONEYPOT_CHECK_ENABLED == TRUE

\* config.BLACKLISTED_PATTERNS, in list order
BLACKLISTED_PATTERNS ==
    << <<"t","e","s","t">>, <<"s","c","a","m">>, <<"f","a","k","e">>,
       <<"h","o","n","e","y">>, <<"p","o","t">>,
       <<"h","o","n","e","y","p","o","t">>, <<"r","u","g">>,
       <<"p","u","l","l">>, <<"r","u","g","p","u","l","l">>,
       <<"m","o","o","n">>, <<"s","a","f","e">>, <<"g","e","m">>,
       <<"1","0","0","x">>, <<"1","0","0","0","x">>, <<"f","a","i","r">>,
       <<"p","r","e","s","a","l","e">>,
       <<"p","r","e","-","s","a","l","e">>, <<"i","c","o">> >>

\* the literal "assembly" followed by the suspicious_patterns list
suspicious_patterns ==
    << <<"a","s","s","e","m","b","l","y">>,
       <<"s","e","l","f","d","e","s","t","r","u","c","t">>,
       <<"s","u","i","c","i","d","e">>,
       <<"d","e","l","e","g","a","t","e","c","a","l","l">>,
       <<"c","a","l","l","c","o","d","e">>,
       <<"i","s","z","e","r","o","(","c","a","l","l","e","r">>,
       <<"o","r","i","g","i","n">> >>

(***************************************************************************)
(* Text and byte helpers                                                   *)
(***************************************************************************)
UpperChars ==
    <<"A","B","C","D","E","F","G","H","I","J","K","L","M",
      "N","O","P","Q","R","S","T","U","V","W","X","Y","Z">>
LowerChars ==
    <<"a","b","c","d","e","f","g","h","i","j","k","l","m",
      "n","o","p","q","r","s","t","u","v","w","x","y","z">>
HexDigits ==
    <<"0","1","2","3","4","5","6","7","8","9","a","b","c","d","e","f">>

\* str.lower() on one character
LowerChar(c) ==
    IF \E i \in DOMAIN UpperChars : UpperChars[i] = c
    THEN LowerChars[CHOOSE i \in DOMAIN UpperChars : UpperChars[i] = c]
    ELSE c

\* str.lower()
RECURSIVE Lower(_)
Lower(s) == IF s = <<>> THEN <<>> ELSE <<LowerChar(Head(s))>> \o Lower(Tail(s))

\* Python "p in s" on text
Contains(p, s) ==
    \E k \in 0..(Len(s) - Len(p)) : \A i \in 1..Len(p) : s[k + i] = p[i]

\* HexBytes.hex(): two lower-case hex digits per byte, no prefix
RECURSIVE Hex(_)
Hex(bytes) ==
    IF bytes = <<>> THEN <<>>
    ELSE <<HexDigits[(Head(bytes) \div 16) + 1], HexDigits[(Head(bytes) % 16) + 1]>>
         \o Hex(Tail(bytes))

(***************************************************************************)
(* Addresses                                                               *)
(***************************************************************************)
Tokens == {"T1", "T2"}

\* an address as text: which token it names and how it is written
Address == [id : Tokens, form : {"checksum", "lower", "invalid"}]

\* mutant: the address is used as it was written
to_checksum_address_as_written(a) == a

\* w3.to_checksum_address on an address it accepts (it raises on the others)
to_checksum_address(a) == [id |-> a.id, form |-> "checksum"]

ChecksumRaises(a) == a.form = "invalid"

ZeroAddress == "0x0000000000000000000000000000000000000000"

(***************************************************************************)
(* The token under analysis. Its name, symbol, pair, reserves and bytecode  *)
(* are facts of the chain, fixed when the request arrives whether or not   *)
(* they can be read; what the explorer and the gas estimation answer is    *)
(* fixed when they are asked.                                              *)
(***************************************************************************)
MetadataValues ==
    { [name |-> <<"C","a","t">>, symbol |-> <<"C","A","T">>],
      [name |-> <<"M","o","o","n","C","a","t">>, symbol |-> <<"M","C">>],
      [name |-> <<"C","a","t">>, symbol |-> <<"G","E","M">>] }

\* getPair, token0 and getReserves of the pair
PoolValues ==
    { [pair |-> ZeroAddress, token0 |-> "WBNB", reserves |-> <<0, 0>>],
      [pair |-> "pair", token0 |-> "WBNB", reserves |-> <<MIN_LIQUIDITY - 1, MIN_LIQUIDITY + 1>>],
      [pair |-> "pair", token0 |-> "WBNB", reserves |-> <<MIN_LIQUIDITY, 1>>],
      [pair |-> "pair", token0 |-> "token", reserves |-> <<1, MIN_LIQUIDITY + 1>>],
      [pair |-> "pair", token0 |-> "token", reserves |-> <<MIN_LIQUIDITY + 1, MIN_LIQUIDITY - 1>>] }

\* deployed bytecode: PUSH1 80 PUSH1 40, alone or followed by the bytes of
\* the text "origin"
CodeValues ==
    { <<96, 128, 96, 64>>,
      <<96, 128, 96, 64, 111, 114, 105, 103, 105, 110>> }

\* token transfers the explorer lists for the pair address
TransferValues ==
    { << [from |-> "pair", tokenAddress |-> "token"],
         [from |-> "other", tokenAddress |-> "token"],
         [from |-> "pair", tokenAddress |-> "token"],
         [from |-> "pair", tokenAddress |-> "token"] >>,
      << [from |-> "pair", tokenAddress |-> "token"],
         [from |-> "pair", tokenAddress |-> "other"],
         [from |-> "other", tokenAddress |-> "token"],
         [from |-> "pair", tokenAddress |-> "token"] >> }

\* balanceOf(WALLET_ADDRESS) after a confirmed buy, in whole tokens
BalanceValues == {1000}

TokenFacts(m, p, c) ==
    [name |-> m.name, symbol |-> m.symbol, pair |-> p.pair, token0 |-> p.token0,
     reserves |-> p.reserves, code |-> c, api_key |-> FALSE, transfers |-> <<>>,
     approve_ok |-> FALSE, balance |-> 0]

\* no request is being handled
NoChain ==
    [name |-> <<>>, symbol |-> <<>>, pair |-> ZeroAddress, token0 |-> "WBNB",
     reserves |-> <<0, 0>>, code |-> <<>>, api_key |-> FALSE,
     transfers |-> <<>>, approve_ok |-> FALSE, balance |-> 0]

(***************************************************************************)
(* Retry loops: "for attempt in range(max_retries): try ... except"        *)
(***************************************************************************)
\* what an attempt does when it ends in an except clause: the chain call
\* raised TimeExhausted / BadFunctionCallOutput ("timeout"), a chain call or
\* what follows a receipt raised another exception ("error", "post_error"),
\* or the explorer request raised ("raise")
Raising == {"timeout", "error", "post_error", "raise"}

\* the attempts a loop makes, one outcome each: every attempt but the last
\* raises, and a last attempt that raises is attempt number max_retries
Runs(outcomes) ==
    {outs \in UNION {[1..n -> outcomes] : n \in 1..max_retries} :
        /\ \A i \in 1..(Len(outs) - 1) : outs[i] \in Raising
        /\ outs[Len(outs)] \in Raising => Len(outs) = max_retries}

\* what one attempt's chain reads do: succeed, or raise
ReadOutcomes == {"ok", "timeout", "error"}
ReadSchedules == Runs(ReadOutcomes)

\* the attempts that do not end in an except clause
Returning(outs) == {i \in DOMAIN outs : outs[i] \notin Raising}

Exhausted(outs) == Returning(outs) = {}

\* the attempt whose return statement ends the loop
FirstReturning(outs) == CHOOSE i \in Returning(outs) : \A j \in Returning(outs) : i <= j

\* how an exhausted loop failed: by timeouts alone, or not
Exhaustion(outs) ==
    IF \A i \in DOMAIN outs : outs[i] = "timeout" THEN "timeouts" ELSE "errors"

(***************************************************************************)
(* Store operations (database/operations.py)                               *)
(***************************************************************************)
is_token_blacklisted(bl, a) == a \in DOMAIN bl

Reason(kind, detail) == [kind |-> kind, detail |-> detail]

\* mutant: the insert replaces the table, not the row
add_to_blacklist_replacing_all(bl, a, symbol, reason) ==
    [x \in {a} |-> [symbol |-> symbol, reason |-> reason]]

\* INSERT OR REPLACE INTO blacklisted_tokens, keyed by token_address
add_to_blacklist(bl, a, symbol, reason) ==
    [x \in (DOMAIN bl) \cup {a} |->
        IF x = a THEN [symbol |-> symbol, reason |-> reason] ELSE bl[x]]

\* DELETE FROM blacklisted_tokens WHERE token_address = ?
remove_from_blacklist(bl, a) == [x \in (DOMAIN bl) \ {a} |-> bl[x]]

EmptyTable == [x \in {} |-> None]

(***************************************************************************)
(* Screening stages (tokendata/analysis.py, security/token_checks.py).     *)
(* Each returns what the Python function returns (ret), how it got there   *)
(* (out) and the blacklist as the function leaves it.                      *)
(***************************************************************************)
NoData == [name |-> <<>>, symbol |-> <<>>]

\* mutant: the patterns are looked for without lower-casing name and symbol
FirstPattern_case_sensitive(name, symbol) ==
    LET hits == {i \in DOMAIN BLACKLISTED_PATTERNS :
                    \/ Contains(BLACKLISTED_PATTERNS[i], name)
                    \/ Contains(BLACKLISTED_PATTERNS[i], symbol)}
    IN  IF hits = {} THEN 0 ELSE CHOOSE i \in hits : \A j \in hits : i <= j

\* the first configured pattern found in the lower-cased name or symbol; 0 if none
FirstPattern(name, symbol) ==
    LET name_lower == Lower(name)
        symbol_lower == Lower(symbol)
        hits == {i \in DOMAIN BLACKLISTED_PATTERNS :
                    \/ Contains(BLACKLISTED_PATTERNS[i], name_lower)
                    \/ Contains(BLACKLISTED_PATTERNS[i], symbol_lower)}
    IN  IF hits = {} THEN 0 ELSE CHOOSE i \in hits : \A j \in hits : i <= j

check_blacklisted_patterns(name, symbol) == FirstPattern(name, symbol) # 0

fetch_token_data(a, outs, ch, bl) ==
    IF is_token_blacklisted(bl, a)
    THEN [ok |-> FALSE, data |-> NoData, out |-> "blacklisted", blacklist |-> bl]
    ELSE IF Exhausted(outs)
    THEN [ok |-> FALSE, data |-> NoData, out |-> Exhaustion(outs), blacklist |-> bl]
    ELSE IF check_blacklisted_patterns(ch.name, ch.symbol)
    THEN [ok |-> FALSE, data |-> NoData, out |-> "pattern",
          blacklist |-> add_to_blacklist(bl, a, ch.symbol,
                            Reason("Contains blacklisted pattern",
                                   BLACKLISTED_PATTERNS[FirstPattern(ch.name, ch.symbol)]))]
    ELSE [ok |-> TRUE, data |-> [name |-> ch.name, symbol |-> ch.symbol],
          out |-> "fetched", blacklist |-> bl]

get_pair_address(outs, ch) ==
    IF Exhausted(outs)
    THEN [ok |-> FALSE, pair |-> ZeroAddress, out |-> Exhaustion(outs)]
    ELSE IF ch.pair = ZeroAddress
    THEN [ok |-> FALSE, pair |-> ZeroAddress, out |-> "no_pair"]
    ELSE [ok |-> TRUE, pair |-> ch.pair, out |-> "found"]

\* mutant: reserve 0 is taken for the base asset whatever token0 is
bnb_reserve_first(ch) == ch.reserves[1]

\* the reserve that is the base asset, by the position of WBNB in the pair
bnb_reserve(ch) == IF ch.token0 = "WBNB" THEN ch.reserves[1] ELSE ch.reserves[2]

check_token_liquidity(outs, ch) ==
    IF Exhausted(outs)
    THEN [ok |-> FALSE, liquidity |-> 0, out |-> Exhaustion(outs)]
    ELSE IF bnb_reserve(ch) < MIN_LIQUIDITY
    THEN [ok |-> FALSE, liquidity |-> 0, out |-> "insufficient"]
    ELSE [ok |-> TRUE, liquidity |-> bnb_reserve(ch), out |-> "sufficient"]

\* "if not liquidity": None and 0.0 are both falsy
LiquidityRejects(l) == ~l.ok \/ l.liquidity = 0

\* whether the code scan finds "assembly" or a suspicious pattern in the
\* lower-cased hex text of the bytecode
CodeMatches(code) ==
    LET contract_code_lower == Lower(Hex(code))
    IN  \E i \in DOMAIN suspicious_patterns :
            Contains(suspicious_patterns[i], contract_code_lower)

\* mutant: a scan that cannot read the code lets the token through
detect_suspicious_assembly_fail_open(outs, ch) ==
    IF ~ASSEMBLY_CHECK_ENABLED
    THEN [ret |-> FALSE, out |-> "disabled"]
    ELSE IF Exhausted(outs)
    THEN [ret |-> FALSE, out |-> Exhaustion(outs)]
    ELSE IF CodeMatches(ch.code)
    THEN [ret |-> TRUE, out |-> "pattern"]
    ELSE [ret |-> FALSE, out |-> "clean"]

detect_suspicious_assembly(outs, ch) ==
    IF ~ASSEMBLY_CHECK_ENABLED
    THEN [ret |-> FALSE, out |-> "disabled"]
    ELSE IF Exhausted(outs)
    THEN [ret |-> TRUE, out |-> Exhaustion(outs)]
    ELSE IF CodeMatches(ch.code)
    THEN [ret |-> TRUE, out |-> "pattern"]
    ELSE [ret |-> FALSE, out |-> "clean"]

\* what one explorer request does: a parsed answer with status "1", a
\* non-200 response, an answer whose status is not "1", or an exception
ExplorerOutcomes == {"ok", "http_error", "api_error", "raise"}
ExplorerSchedules == Runs(ExplorerOutcomes)

successful_sells(txs) ==
    Cardinality({i \in DOMAIN txs :
                    txs[i].from = "pair" /\ txs[i].tokenAddress = "token"})

\* mutant: an explorer that keeps raising counts as no sell history
check_token_sell_history_fail_closed(outs, ch) ==
    IF ~ch.api_key
    THEN [ret |-> TRUE, out |-> "no_api_key"]
    ELSE IF Exhausted(outs)
    THEN [ret |-> FALSE, out |-> "exhausted"]
    ELSE IF outs[FirstReturning(outs)] # "ok"
    THEN [ret |-> TRUE, out |-> outs[FirstReturning(outs)]]
    ELSE IF successful_sells(ch.transfers) >= MIN_SUCCESSFUL_SELLS
    THEN [ret |-> TRUE, out |-> "enough"]
    ELSE [ret |-> FALSE, out |-> "too_few"]

check_token_sell_history(outs, ch) ==
    IF ~ch.api_key
    THEN [ret |-> TRUE, out |-> "no_api_key"]
    ELSE IF Exhausted(outs)
    THEN [ret |-> TRUE, out |-> "exhausted"]
    ELSE IF outs[FirstReturning(outs)] # "ok"
    THEN [ret |-> TRUE, out |-> outs[FirstReturning(outs)]]
    ELSE IF successful_sells(ch.transfers) >= MIN_SUCCESSFUL_SELLS
    THEN [ret |-> TRUE, out |-> "enough"]
    ELSE [ret |-> FALSE, out |-> "too_few"]

\* rpc: whether the probe's chain calls (gas price, nonce, estimate_gas)
\* answer or time out; ch.approve_ok: whether the approval can be estimated
\* mutant: a failed estimation is only logged
check_for_honeypot_lenient(a, symbol, rpc, ch, bl) ==
    IF ~HONEYPOT_CHECK_ENABLED
    THEN [ret |-> FALSE, out |-> "disabled", blacklist |-> bl]
    ELSE IF rpc = "timeout" \/ ~ch.approve_ok
    THEN [ret |-> FALSE,
          out |-> IF rpc = "timeout" THEN "timeouts" ELSE "estimate_failed",
          blacklist |-> bl]
    ELSE [ret |-> FALSE, out |-> "estimated", blacklist |-> bl]

check_for_honeypot(a, symbol, rpc, ch, bl) ==
    IF ~HONEYPOT_CHECK_ENABLED
    THEN [ret |-> FALSE, out |-> "disabled", blacklist |-> bl]
    ELSE IF rpc = "timeout" \/ ~ch.approve_ok
    THEN [ret |-> TRUE,
          out |-> IF rpc = "timeout" THEN "timeouts" ELSE "estimate_failed",
          blacklist |-> add_to_blacklist(bl, a, symbol,
                            Reason("Approval function manipulation detected", <<>>))]
    ELSE [ret |-> FALSE, out |-> "estimated", blacklist |-> bl]

(***************************************************************************)
(* execute_buy (trading/buy.py)                                            *)
(***************************************************************************)
\* what one attempt does: raise before anything is sent ("error"), get no
\* quote from calculate_min_tokens ("no_quote"), send and time out waiting
\* for the receipt ("timeout"), send and get a receipt with status 0
\* ("reverted") or 1 ("success"), or send, get status 1 and raise while
\* reading the balance ("post_error")
BuyOutcomes == {"error", "no_quote", "timeout", "reverted", "success", "post_error"}
BuySchedules == Runs(BuyOutcomes)

NoBuy ==
    [called |-> FALSE, token |-> [id |-> "T1", form |-> "invalid"],
     ret |-> "none", sent |-> 0, attempts |-> 0, confirmed |-> 0,
     amount |-> 0, is_test |-> FALSE]

Position(a, symbol, tokens, amount, now) ==
    [token_address |-> a, token_symbol |-> symbol,
     amount_tokens |-> tokens,
     investment_amount_bnb |-> amount,
     purchase_time |-> now,
     take_profit_target |-> TAKE_PROFIT_PERCENTAGE,
     stop_loss_target |-> STOP_LOSS_PERCENTAGE,
     status |-> "active"]

Transaction(a, symbol, type, tokens, amount) ==
    [token_address |-> a, token_symbol |-> symbol,
     transaction_type |-> type, amount_tokens |-> tokens, amount_bnb |-> amount]

\* how many of the first n attempts got a receipt with status 1
Confirmed(outs, n) ==
    Cardinality({k \in 1..n : outs[k] \in {"success", "post_error"}})

RECURSIVE buy_attempt(_, _, _, _, _, _, _, _, _)
buy_attempt(i, sent, a, amount, is_test, outs, ch, bl, tables) ==
    IF i > max_retries
    THEN [ret |-> "None", sent |-> sent, attempts |-> max_retries,
          confirmed |-> Confirmed(outs, max_retries),
          blacklist |-> bl, tables |-> tables]
    ELSE IF a.form # "checksum"
    THEN [ret |-> "None", sent |-> sent, attempts |-> i,
          confirmed |-> Confirmed(outs, i - 1),
          blacklist |-> bl, tables |-> tables]
    ELSE IF outs[i] = "error"
    THEN buy_attempt(i + 1, sent, a, amount, is_test, outs, ch, bl, tables)
    ELSE IF outs[i] = "no_quote"
    THEN [ret |-> "None", sent |-> sent, attempts |-> i,
          confirmed |-> Confirmed(outs, i),
          blacklist |-> bl, tables |-> tables]
    ELSE IF outs[i] \in {"timeout", "post_error"}
    THEN buy_attempt(i + 1, sent + 1, a, amount, is_test, outs, ch, bl, tables)
    ELSE IF outs[i] = "reverted"
    THEN [ret |-> "failed", sent |-> sent + 1, attempts |-> i,
          confirmed |-> Confirmed(outs, i),
          blacklist |-> IF is_test THEN bl
                        ELSE add_to_blacklist(bl, a, ch.symbol,
                                 Reason("Buy transaction failed", <<>>)),
          tables |-> tables]
    ELSE [ret |-> "success", sent |-> sent + 1, attempts |-> i,
          confirmed |-> Confirmed(outs, i), blacklist |-> bl,
          tables |->
            [portfolio |->
                IF is_test THEN tables.portfolio
                ELSE Append(tables.portfolio,
                            Position(a, ch.symbol, ch.balance, amount, tables.now)),
             transactions |->
                Append(tables.transactions,
                       Transaction(a, ch.symbol,
                                   IF is_test THEN "test_buy" ELSE "buy",
                                   ch.balance, amount)),
             now |-> tables.now]]

execute_buy(a, amount, is_test, outs, ch, bl, tables) ==
    buy_attempt(1, 0, a, amount, is_test, outs, ch, bl, tables)

(***************************************************************************)
(* execute_sell (trading/sell.py)                                          *)
(***************************************************************************)
\* what one attempt of execute_sell does: raise before the swap is sent
\* ("error"), get an approval receipt with status 0 ("approval_reverted"),
\* get no quote from estimate_bnb_output ("no_estimate"), send the swap and
\* time out on the receipt ("timeout"), or send it and get a receipt with
\* status 0 ("reverted") or 1 ("success")
SellContinuing == {"error", "timeout", "reverted"}
SellOutcomes == SellContinuing \cup {"approval_reverted", "no_estimate", "success"}

\* the messages of the exceptions execute_sell looks into
GasMessage == "gas required exceeds allowance"
AlwaysFailingMessage == "always failing transaction"
RevertedMessage == "execution reverted"

\* the same failures told apart by what execute_sell records of them: the
\* balance read raises ("read_raised"), a step before the swap raises an
\* exception whose message speaks of gas ("gas_error"), a web3 transaction
\* error (TimeExhausted, BadFunctionCallOutput, TransactionNotFound) carries
\* one of the three messages ("tx_gas", "tx_always_failing", "tx_reverted"),
\* the receipt has status 0 and more than 95% of the gas limit is used
\* ("reverted_out_of_gas")
SellRaising ==
    {"read_raised", "gas_error", "tx_gas", "tx_always_failing", "tx_reverted",
     "reverted_out_of_gas"}
SellContinuingAll == SellContinuing \cup SellRaising
SellOutcomesAll == SellOutcomes \cup SellRaising

\* failure_reasons.append(...): what an attempt that continues records
failure_reasons(out) ==
    CASE out = "error" -> <<"error">>
      [] out = "read_raised" -> <<"error">>
      [] out = "timeout" -> <<"TimeExhausted">>
      [] out = "reverted" -> <<"Unknown reason">>
      [] out = "reverted_out_of_gas" -> <<"Unknown reason", "OUT_OF_GAS">>
      [] out = "gas_error" -> <<GasMessage>>
      [] out = "tx_gas" -> <<GasMessage, "EXCEEDED_MAXIMUM">>
      [] out = "tx_always_failing" -> <<AlwaysFailingMessage, "ALWAYS_FAILING">>
      [] out = "tx_reverted" -> <<RevertedMessage, "EXECUTION_REVERTED">>

\* send_raw_transaction of the swap returned in the attempt
swap_sent(out) == out \in {"timeout", "reverted", "reverted_out_of_gas", "success"}

\* the attempts of one call, with the failures told apart
AllSellSchedules ==
    {outs \in UNION {[1..n -> SellOutcomesAll] : n \in 1..max_retries} :
        /\ \A i \in 1..(Len(outs) - 1) : outs[i] \in SellContinuingAll
        /\ outs[Len(outs)] \in SellContinuingAll => Len(outs) = max_retries}

\* the attempts of one call: an attempt follows only one that continues
SellSchedules ==
    {outs \in UNION {[1..n -> SellOutcomes] : n \in 1..max_retries} :
        /\ \A i \in 1..(Len(outs) - 1) : outs[i] \in SellContinuing
        /\ outs[Len(outs)] \in SellContinuing => Len(outs) = max_retries}

\* mutant: the UPDATE has no WHERE clause
update_portfolio_status_every_row(table, portfolio_id, status) ==
    [i \in DOMAIN table |-> [table[i] EXCEPT !.status = status]]

\* UPDATE portfolio SET status = ? WHERE id = ?
update_portfolio_status(table, portfolio_id, status) ==
    IF portfolio_id \in DOMAIN table
    THEN [table EXCEPT ![portfolio_id].status = status]
    ELSE table

\* mutant: the SELECT has no WHERE clause
get_active_portfolio_every_row(table) ==
    [i \in DOMAIN table |-> [id |-> i, row |-> table[i]]]

\* SELECT id, ... FROM portfolio WHERE status = 'active': the rows with
\* their ids, in row order
get_active_portfolio(table) ==
    SelectSeq([i \in DOMAIN table |-> [id |-> i, row |-> table[i]]],
              LAMBDA r : r.row.status = "active")

\* 'gas' in reason.lower() or 'exceed' in reason.lower(), for some reason:
\* of the reasons execute_sell records, these hold one of the two words
mentions_gas(reasons) ==
    \E i \in DOMAIN reasons :
        reasons[i] \in {"OUT_OF_GAS", "EXCEEDED_MAXIMUM", GasMessage}

\* sell.py 138-147: from the second attempt on amount_tokens is multiplied
\* by 0.8 ** attempt (0.5 ** attempt after a gas failure), amount_tokens
\* being what the previous attempt left in it
reduced_amount(amount, attempt, reasons) ==
    IF attempt = 0
    THEN amount
    ELSE IF mentions_gas(reasons)
    THEN amount \div (2 ^ attempt)
    ELSE (amount * (8 ^ attempt)) \div (10 ^ attempt)

\* the arguments of a call; an amount_tokens of None is has_amount = FALSE,
\* and a portfolio_id of None is 0
SellArgs(a, symbol, has_amount, amount, portfolio_id, is_test) ==
    [token |-> a, symbol |-> symbol, has_amount |-> has_amount, amount |-> amount,
     portfolio_id |-> portfolio_id, is_test |-> is_test]

SellResult(ret, reasons, atts, sent, tables, writes) ==
    [ret |-> ret, reasons |-> reasons, attempts |-> atts, sent |-> sent,
     tables |-> tables, status_writes |-> writes, queued |-> <<>>]

\* the functions database/operations.py defines
database_operations ==
    {"record_failed_transaction", "is_token_blacklisted", "add_to_blacklist",
     "add_to_portfolio", "update_portfolio_status", "get_active_portfolio",
     "record_transaction"}

\* from database.operations import <name> raises ImportError
ImportRaises(name) == name \notin database_operations

\* sell_schedule: the percentages and the delays in minutes
sell_schedule ==
    <<[percent |-> 5, delay_minutes |-> 5], [percent |-> 10, delay_minutes |-> 15],
      [percent |-> 15, delay_minutes |-> 30], [percent |-> 20, delay_minutes |-> 60],
      [percent |-> 50, delay_minutes |-> 120]>>

\* the add_to_sell_queue calls of the schedule loop for an amount: one entry
\* for each step, of amount * (percent / 100), due delay_minutes after now
schedule_entries(a, amount, now) ==
    [i \in DOMAIN sell_schedule |->
        [token |-> a, sell_amount |-> (amount * sell_schedule[i].percent) \div 100,
         enqueued |-> now, delay_minutes |-> sell_schedule[i].delay_minutes]]

\* sell.py 404-434: after the last attempt the token is queued for gradual
\* selling when there are three reasons or more and one of them is one of
\* the two tags; the import of add_to_sell_queue comes first, and its
\* ImportError is caught
queued_on_exhaustion(a, amount, reasons, now) ==
    IF /\ Len(reasons) >= 3
       /\ \E i \in DOMAIN reasons : reasons[i] \in {"ALWAYS_FAILING", "EXECUTION_REVERTED"}
       /\ ~ImportRaises("add_to_sell_queue")
    THEN schedule_entries(a, amount, now)
    ELSE <<>>

\* mutant: no amount is too small to sell
below_dust_never(amount) == FALSE

\* sell.py 152-159: amount_tokens_wei < minimum_sell_amount_wei, the minimum
\* being 1000 wei; amounts are whole tokens here, and of those only 0 is
\* below the minimum
below_dust(amount) == amount < 1

\* mutant: the status of the approval receipt is not looked at
approval_aborts_never(out) == FALSE

\* sell.py 198-205: approve_receipt['status'] != 1
approval_aborts(out) == out = "approval_reverted"

\* attempt number `attempt` (from 0) of the loop of execute_sell; `known` is
\* whether amount_tokens holds a number when the attempt starts, `env` holds
\* the wallet's balance of the token and the quote of the router
RECURSIVE sell_attempt(_, _, _, _, _, _, _, _, _, _)
sell_attempt(attempt, known, amount, reasons, atts, sent, args, outs, env, tables) ==
    IF attempt >= max_retries
    THEN [SellResult("failed", reasons, atts, sent, tables, 0)
            EXCEPT !.queued = queued_on_exhaustion(args.token, amount, reasons,
                                                   tables.now)]
    ELSE IF args.token.form # "checksum"
    THEN SellResult("None", reasons, atts, sent, tables, 0)
    ELSE
    LET out == outs[attempt + 1]
        amt == IF ~known THEN env.balance
               ELSE reduced_amount(amount, attempt, reasons)
        att == [out |-> out, amount |-> amt]
        sends == IF swap_sent(out) THEN 1 ELSE 0
    IN  IF out = "read_raised" /\ ~known
        THEN sell_attempt(attempt + 1, FALSE, amount,
                          reasons \o failure_reasons(out),
                          Append(atts, [out |-> out, amount |-> 0]), sent,
                          args, outs, env, tables)
        ELSE IF below_dust(amt)
        THEN SellResult("skipped", reasons, atts, sent, tables, 0)
        ELSE IF approval_aborts(out)
        THEN SellResult("failed", <<"Approval failed">>, Append(atts, att), sent, tables, 0)
        ELSE IF out = "no_estimate"
        THEN SellResult("failed", <<"Failed to estimate BNB output">>,
                        Append(atts, att), sent, tables, 0)
        ELSE IF out \in SellContinuingAll
        THEN sell_attempt(attempt + 1, TRUE, amt, reasons \o failure_reasons(out),
                          Append(atts, att), sent + sends, args, outs, env, tables)
        ELSE LET marks == ~args.is_test /\ args.portfolio_id # 0
             IN  SellResult("success", reasons, Append(atts, att), sent + 1,
                    [portfolio |->
                        IF marks
                        THEN update_portfolio_status(tables.portfolio,
                                                     args.portfolio_id, "sold")
                        ELSE tables.portfolio,
                     transactions |->
                        Append(tables.transactions,
                               Transaction(args.token, args.symbol,
                                           IF args.is_test THEN "test_sell" ELSE "sell",
                                           amt, env.quote)),
                     now |-> tables.now],
                    IF marks THEN 1 ELSE 0)

\* mutant: on exhaustion only the last reason is returned
execute_sell_last_reason(args, outs, env, tables) ==
    LET r == sell_attempt(0, args.has_amount, args.amount, <<>>, <<>>, 0,
                          args, outs, env, tables)
    IN  IF r.ret = "failed" /\ Len(r.reasons) > 1
        THEN [r EXCEPT !.reasons = <<r.reasons[Len(r.reasons)]>>]
        ELSE r

execute_sell(args, outs, env, tables) ==
    sell_attempt(0, args.has_amount, args.amount, <<>>, <<>>, 0, args, outs, env, tables)

(***************************************************************************)
(* Python floats. A float is m * 2^e with a significand m of                *)
(* SignificandBits bits; every operation rounds its exact result to the    *)
(* nearest float, ties to the even significand, as IEEE 754 does. The      *)
(* significand has 53 bits in Python; 13 bits keep the arithmetic within   *)
(* TLC's integers, and with 13 bits should_take_profit and should_stop_loss*)
(* answer as Python does for every amount the model uses (investments of   *)
(* 0.05 and 1.00 BNB, values from 0 to three times the investment in steps *)
(* of 0.01 BNB).                                                           *)
(***************************************************************************)
SignificandBits == 13

Float(m, e) == [m |-> m, e |-> e]

\* the float nearest to n / d * 2^e, for n >= 0 and d > 0
RECURSIVE RoundRatio(_, _, _)
RoundRatio(n, d, e) ==
    IF n = 0
    THEN Float(0, 0)
    ELSE IF n >= d * (2 ^ SignificandBits)
    THEN RoundRatio(n, 2 * d, e + 1)
    ELSE IF n < d * (2 ^ (SignificandBits - 1))
    THEN RoundRatio(2 * n, d, e - 1)
    ELSE LET q == n \div d
             r == n % d
             up == 2 * r > d \/ (2 * r = d /\ q % 2 = 1)
             m == IF up THEN q + 1 ELSE q
         IN  IF m = 2 ^ SignificandBits
             THEN Float(2 ^ (SignificandBits - 1), e + 1)
             ELSE Float(m, e)

Negated(x) == Float(0 - x.m, x.e)

\* the float nearest to n / d * 2^e, of either sign
Rounded(n, d, e) ==
    IF n >= 0 THEN RoundRatio(n, d, e) ELSE Negated(RoundRatio(0 - n, d, e))

\* float(h / 100): an amount of h hundredths of a BNB as a float
from_hundredths(h) == Rounded(h, 100, 0)

\* x - y
float_sub(x, y) ==
    IF y.m = 0 THEN x
    ELSE IF x.m = 0 THEN Negated(y)
    ELSE LET e == IF x.e < y.e THEN x.e ELSE y.e
         IN  Rounded(x.m * (2 ^ (x.e - e)) - y.m * (2 ^ (y.e - e)), 1, e)

\* x / y, for y > 0
float_div(x, y) == Rounded(x.m, y.m, x.e - y.e)

\* x * k, for an integer k > 0
float_times(x, k) == Rounded(x.m * k, 1, x.e)

\* x >= k, for an integer k > 0
float_at_least(x, k) ==
    IF x.m <= 0 THEN FALSE
    ELSE IF x.e >= 0 THEN x.m * (2 ^ x.e) >= k
    ELSE IF x.e < 0 - 2 * SignificandBits THEN FALSE
    ELSE x.m >= k * (2 ^ (0 - x.e))

(***************************************************************************)
(* The exit rules (portfolio/management.py)                                *)
(***************************************************************************)
MAX_HOLDING_TIME == 24

\* (current_value - investment_amount) / investment_amount * 100 >= target
should_take_profit(current_value, investment_amount, take_profit_target) ==
    LET v == from_hundredths(current_value)
        inv == from_hundredths(investment_amount)
    IN  float_at_least(float_times(float_div(float_sub(v, inv), inv), 100),
                       take_profit_target)

\* (investment_amount - current_value) / investment_amount * 100 >= target
should_stop_loss(current_value, investment_amount, stop_loss_target) ==
    LET v == from_hundredths(current_value)
        inv == from_hundredths(investment_amount)
    IN  float_at_least(float_times(float_div(float_sub(inv, v), inv), 100),
                       stop_loss_target)

\* datetime.now() - purchase_time >= timedelta(hours = max_holding_time)
should_sell_by_time(purchase_time, now, max_holding_time) ==
    now - purchase_time >= max_holding_time

\* mutant: the holding time is tested before the stop loss
exit_rule_time_first(row, current_value, now) ==
    IF should_take_profit(current_value, row.investment_amount_bnb,
                          row.take_profit_target)
    THEN "take_profit"
    ELSE IF should_sell_by_time(row.purchase_time, now, MAX_HOLDING_TIME)
    THEN "max_holding"
    ELSE IF should_stop_loss(current_value, row.investment_amount_bnb,
                             row.stop_loss_target)
    THEN "stop_loss"
    ELSE "hold"

\* the first exit rule that matches, in the order of the if / elif chain
\* of monitor_portfolio; "hold" when none does
exit_rule(row, current_value, now) ==
    IF should_take_profit(current_value, row.investment_amount_bnb,
                          row.take_profit_target)
    THEN "take_profit"
    ELSE IF should_stop_loss(current_value, row.investment_amount_bnb,
                             row.stop_loss_target)
    THEN "stop_loss"
    ELSE IF should_sell_by_time(row.purchase_time, now, MAX_HOLDING_TIME)
    THEN "max_holding"
    ELSE "hold"

\* what monitor_portfolio notes of one entry: how its processing ended, the
\* value estimated for it, and the execute_sell call made for it, if any
Evaluation(id, out, value, sells, amount, ret) ==
    [id |-> id, out |-> out, value |-> value, sells |-> sells,
     amount |-> amount, ret |-> ret]

\* mutant: a failure on one entry ends the loop
after_entry_aborting(i, out, n) ==
    IF out \in {"blacklisted", "pattern", "no_data", "no_value", "raised"}
    THEN n + 1
    ELSE i + 1

\* the index of the entry monitor_portfolio turns to after one that ended
\* with `out`: the for loop goes on whatever happened
after_entry(i, out, n) == i + 1

(***************************************************************************)
(* analyze_token: the order of its stages and what it does on each result  *)
(***************************************************************************)
Stages ==
    <<"lookup", "metadata", "pair", "liquidity", "bytecode", "sell_history", "honeypot">>

StageIndex(s) == CHOOSE i \in DOMAIN Stages : Stages[i] = s

\* mutant: the code scan and the sell-history check change places
NextStage_swapped(s) ==
    LET order == <<"lookup", "metadata", "pair", "liquidity",
                   "sell_history", "bytecode", "honeypot">>
        i == CHOOSE k \in DOMAIN order : order[k] = s
    IN  IF i = Len(order) THEN "analysed" ELSE order[i + 1]

\* where analyze_token goes when stage s lets the token through
NextStage(s) ==
    IF StageIndex(s) = Len(Stages) THEN "analysed" ELSE Stages[StageIndex(s) + 1]

NoLocals ==
    [token_address |-> [id |-> "T1", form |-> "invalid"], token_data |-> NoData,
     pair_address |-> ZeroAddress, liquidity |-> 0]

\* execute_sell has not been called
NoSell ==
    [called |-> FALSE,
     args |-> SellArgs([id |-> "T1", form |-> "invalid"], <<>>, FALSE, 0, 0, FALSE),
     ret |-> "none", reasons |-> <<>>, attempts |-> <<>>, sent |-> 0,
     status_writes |-> 0, queued |-> <<>>]

\* execute_sell was called with `args` and returned r
SellRecord(args, r) ==
    [called |-> TRUE, args |-> args, ret |-> r.ret, reasons |-> r.reasons,
     attempts |-> r.attempts, sent |-> r.sent, status_writes |-> r.status_writes,
     queued |-> r.queued]

\* neither execute_take_profit_strategy nor queue_token_for_gradual_selling
\* has been called
NoCall ==
    [op |-> "none", amount_tokens |-> 0, investment_amount |-> 0, portfolio_id |-> 0,
     has_value |-> FALSE, value |-> 0, status |-> "none", reason |-> "none",
     sell_amount |-> 0, tokens_sold |-> 0, sells |-> 0, attempts |-> <<>>,
     sell_ret |-> "none", queued |-> FALSE, entries |-> <<>>]

\* the process has not been started: no thread runs
NoThreads == [started |-> FALSE, of |-> EmptyTable]

\* the wallet has sent nothing: its transaction count, the nonces it has
\* broadcast and those it has broadcast more than once
NoBroadcasts == [count |-> 0, sent |-> {}, reused |-> {}]

\* monitor_portfolio is not running
NoSweep == [running |-> FALSE, entries |-> <<>>, i |-> 0, log |-> <<>>]

NoRequest == [mode |-> "none", token |-> [id |-> "T1", form |-> "invalid"], amount |-> 0]

Call(s, out, writes) == [stage |-> s, out |-> out, writes |-> writes]

\* stage s let the token through
Continue(s, out) ==
    /\ pc' = NextStage(s)
    /\ result' = IF NextStage(s) = "analysed" THEN "accept" ELSE result
    /\ trace' = Append(trace, Call(s, out, 0))

\* stage s ended the analysis: "return None"
Reject(s, out, writes) ==
    /\ pc' = "analysed"
    /\ result' = "reject"
    /\ trace' = Append(trace, Call(s, out, writes))

Init ==
    /\ pc = "idle"
    /\ req = NoRequest
    /\ chain = NoChain
    /\ loc = NoLocals
    /\ trace = <<>>
    /\ result = "none"
    /\ buy = NoBuy
    /\ blacklist = EmptyTable
    /\ portfolio = <<>>
    /\ transactions = <<>>
    /\ sell = NoSell
    /\ sweep = NoSweep
    /\ clock = 0
    /\ strategy = NoCall
    /\ threads = NoThreads
    /\ wallet = NoBroadcasts

\* discovery.handle_new_pair is entered with the token of a PairCreated event
HandleNewPair(t) ==
    /\ pc = "idle"
    /\ Len(portfolio) < MaxPositions
    /\ req' = [mode |-> "discovery", token |-> [id |-> t, form |-> "checksum"], amount |-> 0]
    /\ \E m \in MetadataValues, p \in PoolValues, c \in CodeValues :
            chain' = TokenFacts(m, p, c)
    /\ pc' = "lookup"
    /\ UNCHANGED <<loc, trace, result, buy, blacklist, portfolio, transactions>>
    /\ UNCHANGED exec_vars

\* main.run_token_sniper in single-token mode: --token and, optionally,
\* --amount; text that is no address names no token on the chain
RunTokenSniper(a, amount) ==
    /\ pc = "idle"
    /\ Len(portfolio) < MaxPositions
    /\ req' = [mode |-> "single", token |-> a, amount |-> amount]
    /\ IF ChecksumRaises(a)
       THEN chain' = NoChain
       ELSE \E m \in MetadataValues, p \in PoolValues, c \in CodeValues :
                chain' = TokenFacts(m, p, c)
    /\ pc' = "lookup"
    /\ UNCHANGED <<loc, trace, result, buy, blacklist, portfolio, transactions>>
    /\ UNCHANGED exec_vars

\* analysis.py 194-208: checksum conversion and blacklist lookup
Lookup ==
    /\ pc = "lookup"
    /\ IF ChecksumRaises(req.token)
       THEN /\ pc' = "analysed"
            /\ result' = "raised"
            /\ UNCHANGED <<loc, trace>>
       ELSE /\ loc' = [loc EXCEPT !.token_address = to_checksum_address(req.token)]
            /\ IF is_token_blacklisted(blacklist, to_checksum_address(req.token))
               THEN Reject("lookup", "blacklisted", 0)
               ELSE Continue("lookup", "absent")
    /\ UNCHANGED <<req, chain, buy, blacklist, portfolio, transactions>>
    /\ UNCHANGED exec_vars

\* analysis.py 210-214
Metadata ==
    /\ pc = "metadata"
    /\ \E outs \in ReadSchedules :
        LET r == fetch_token_data(loc.token_address, outs, chain, blacklist) IN
        /\ blacklist' = r.blacklist
        /\ loc' = [loc EXCEPT !.token_data = r.data]
        /\ IF r.ok
           THEN Continue("metadata", r.out)
           ELSE Reject("metadata", r.out, IF r.out = "pattern" THEN 1 ELSE 0)
    /\ UNCHANGED <<req, chain, buy, portfolio, transactions>>
    /\ UNCHANGED exec_vars

\* analysis.py 216-220
Pair ==
    /\ pc = "pair"
    /\ \E outs \in ReadSchedules :
        LET r == get_pair_address(outs, chain) IN
        /\ loc' = [loc EXCEPT !.pair_address = r.pair]
        /\ IF r.ok THEN Continue("pair", r.out) ELSE Reject("pair", r.out, 0)
    /\ UNCHANGED <<req, chain, buy, blacklist, portfolio, transactions>>
    /\ UNCHANGED exec_vars

\* analysis.py 222-226
Liquidity ==
    /\ pc = "liquidity"
    /\ \E outs \in ReadSchedules :
        LET r == check_token_liquidity(outs, chain) IN
        /\ loc' = [loc EXCEPT !.liquidity = r.liquidity]
        /\ IF LiquidityRejects(r)
           THEN Reject("liquidity", r.out, 0)
           ELSE Continue("liquidity", r.out)
    /\ UNCHANGED <<req, chain, buy, blacklist, portfolio, transactions>>
    /\ UNCHANGED exec_vars

\* analysis.py 231-235
Bytecode ==
    /\ pc = "bytecode"
    /\ \E outs \in ReadSchedules :
        LET r == detect_suspicious_assembly(outs, chain) IN
        /\ IF r.ret
           THEN /\ blacklist' = add_to_blacklist(blacklist, loc.token_address,
                                    loc.token_data.symbol,
                                    Reason("Suspicious assembly code detected", <<>>))
                /\ Reject("bytecode", r.out, 1)
           ELSE /\ blacklist' = blacklist
                /\ Continue("bytecode", r.out)
    /\ UNCHANGED <<req, chain, loc, buy, portfolio, transactions>>
    /\ UNCHANGED exec_vars

\* analysis.py 237-240
SellHistory ==
    /\ pc = "sell_history"
    /\ \E outs \in ExplorerSchedules, k \in BOOLEAN, x \in TransferValues :
        LET ch == IF k /\ ~Exhausted(outs) /\ outs[FirstReturning(outs)] = "ok"
                  THEN [chain EXCEPT !.api_key = k, !.transfers = x]
                  ELSE [chain EXCEPT !.api_key = k]
            r == check_token_sell_history(outs, ch) IN
        /\ chain' = ch
        /\ IF ~r.ret
           THEN /\ blacklist' = add_to_blacklist(blacklist, loc.token_address,
                                    loc.token_data.symbol,
                                    Reason("Insufficient sell history", <<>>))
                /\ Reject("sell_history", r.out, 1)
           ELSE /\ blacklist' = blacklist
                /\ Continue("sell_history", r.out)
    /\ UNCHANGED <<req, loc, buy, portfolio, transactions>>
    /\ UNCHANGED exec_vars

\* analysis.py 242-256
Honeypot ==
    /\ pc = "honeypot"
    /\ \E rpc \in {"ok", "timeout"}, g \in BOOLEAN :
        LET ch == IF rpc = "timeout" THEN chain ELSE [chain EXCEPT !.approve_ok = g]
            r == check_for_honeypot(loc.token_address, loc.token_data.symbol,
                                    rpc, ch, blacklist) IN
        /\ chain' = ch
        /\ IF r.ret
           THEN /\ blacklist' = add_to_blacklist(r.blacklist, loc.token_address,
                                    loc.token_data.symbol,
                                    Reason("Honeypot detected", <<>>))
                /\ Reject("honeypot", r.out, IF r.blacklist = blacklist THEN 1 ELSE 2)
           ELSE /\ blacklist' = r.blacklist
                /\ Continue("honeypot", r.out)
    /\ UNCHANGED <<req, loc, buy, portfolio, transactions>>
    /\ UNCHANGED exec_vars

\* mutant: the larger of the two amounts is taken
investment_amount_larger(liquidity) ==
    IF 3 * MAX_INVESTMENT_PER_TOKEN <= 2 * liquidity
    THEN (2 * liquidity) \div 3
    ELSE MAX_INVESTMENT_PER_TOKEN

\* min(MAX_INVESTMENT_PER_TOKEN, liquidity_bnb / LIQUIDITY_SAFETY_MULTIPLIER),
\* the multiplier being 1.5; a fraction is cut to whole hundredths of a BNB
investment_amount(liquidity) ==
    IF 3 * MAX_INVESTMENT_PER_TOKEN <= 2 * liquidity
    THEN MAX_INVESTMENT_PER_TOKEN
    ELSE (2 * liquidity) \div 3

\* mutant: the caller does not look at what the analysis returned
BuysAfter_unchecked(r, res) ==
    /\ res # "raised"
    /\ r.mode = "single" => r.amount # 0

\* whether the caller goes on to execute_buy, and with what amount
BuysAfter(r, res) ==
    /\ res = "accept"
    /\ r.mode = "single" => r.amount # 0

BuyAmount(r, liquidity) ==
    IF r.mode = "discovery" THEN investment_amount(liquidity) ELSE r.amount

\* discovery.py 34-46, main.py 71-82: the analysis passed and the buy is made
ExecuteBuy ==
    /\ pc = "analysed"
    /\ BuysAfter(req, result)
    /\ \E outs \in BuySchedules, bal \in BalanceValues :
        LET amount == BuyAmount(req, loc.liquidity)
            r == execute_buy(req.token, amount, FALSE, outs,
                             [chain EXCEPT !.balance = bal], blacklist,
                             [portfolio |-> portfolio, transactions |-> transactions,
                              now |-> clock])
        IN  /\ buy' = [called |-> TRUE, token |-> req.token, ret |-> r.ret,
                        sent |-> r.sent, attempts |-> r.attempts,
                        confirmed |-> r.confirmed, amount |-> amount,
                        is_test |-> FALSE]
            /\ blacklist' = r.blacklist
            /\ portfolio' = r.tables.portfolio
            /\ transactions' = r.tables.transactions
    /\ pc' = "handled"
    /\ UNCHANGED <<req, chain, loc, trace, result>>
    /\ UNCHANGED exec_vars

\* discovery.py 28-30, main.py 83-87: no buy follows the analysis
NoBuyAfter ==
    /\ pc = "analysed"
    /\ ~BuysAfter(req, result)
    /\ pc' = "handled"
    /\ UNCHANGED <<req, chain, loc, trace, result, buy, blacklist, portfolio, transactions>>
    /\ UNCHANGED exec_vars

\* the handler returns; its locals are gone
Return ==
    /\ pc = "handled"
    /\ pc' = "idle"
    /\ req' = NoRequest
    /\ chain' = NoChain
    /\ loc' = NoLocals
    /\ trace' = <<>>
    /\ result' = "none"
    /\ buy' = NoBuy
    /\ UNCHANGED <<blacklist, portfolio, transactions>>
    /\ UNCHANGED exec_vars

\* security/blacklist.py remove_from_blacklist: the operator's removal,
\* made between two handled requests
RemoveFromBlacklist(a) ==
    /\ pc = "idle"
    /\ a \in DOMAIN blacklist
    /\ blacklist' = remove_from_blacklist(blacklist, a)
    /\ UNCHANGED <<pc, req, chain, loc, trace, result, buy, portfolio, transactions>>
    /\ UNCHANGED exec_vars

Next ==
    \/ \E t \in Tokens : HandleNewPair(t)
    \/ \E a \in Address, amount \in {0, MAX_INVESTMENT_PER_TOKEN} : RunTokenSniper(a, amount)
    \/ Lookup
    \/ Metadata
    \/ Pair
    \/ Liquidity
    \/ Bytecode
    \/ SellHistory
    \/ Honeypot
    \/ ExecuteBuy
    \/ NoBuyAfter
    \/ Return
    \/ \E a \in Address : RemoveFromBlacklist(a)

Spec == Init /\ [][Next]_vars

(***************************************************************************)
(* The execution and exit paths: execute_buy and execute_sell called on    *)
(* their own, and the sweeps of monitor_portfolio over the positions the   *)
(* buys created. A call is a step that fixes its arguments and a step that *)
(* runs it to its return; a sweep is a step per entry.                     *)
(***************************************************************************)
MaxHeld == 2
MaxRows == 2
MaxClock == 24

\* what the router quotes for the held amount of a position bought for
\* MAX_INVESTMENT_PER_TOKEN, in hundredths of a BNB
QuoteValues ==
    {MAX_INVESTMENT_PER_TOKEN - 1, MAX_INVESTMENT_PER_TOKEN,
     MAX_INVESTMENT_PER_TOKEN + 1, MAX_INVESTMENT_PER_TOKEN + 2}

\* the facts of a token that execute_buy and the sweep read
HeldFacts(m, bal) ==
    [TokenFacts(m, [pair |-> "pair", token0 |-> "WBNB",
                    reserves |-> <<MIN_LIQUIDITY, 1>>], <<>>)
        EXCEPT !.balance = bal]

\* name and symbol of the tokens execute_buy is called for
HeldMetadata == {m \in MetadataValues : m.symbol = <<"C","A","T">>}

\* the metadata of the token whose symbol the position row holds
MetadataOf(symbol) == CHOOSE m \in MetadataValues : m.symbol = symbol

Tables == [portfolio |-> portfolio, transactions |-> transactions, now |-> clock]

\* execute_buy is called with an address and, possibly, as a test buy
BuyCall(a, is_test) ==
    /\ pc = "idle"
    /\ ~sweep.running
    /\ Len(portfolio) < MaxHeld
    /\ Len(transactions) < MaxRows
    /\ pc' = "buying"
    /\ buy' = [NoBuy EXCEPT !.token = a, !.amount = MAX_INVESTMENT_PER_TOKEN,
                            !.is_test = is_test]
    /\ IF ChecksumRaises(a)
       THEN chain' = NoChain
       ELSE \E m \in HeldMetadata, bal \in BalanceValues : chain' = HeldFacts(m, bal)
    /\ UNCHANGED <<req, loc, trace, result, blacklist, portfolio, transactions>>
    /\ UNCHANGED exec_vars

\* execute_buy runs to its return
BuyDone ==
    /\ pc = "buying"
    /\ \E outs \in BuySchedules :
        LET r == execute_buy(buy.token, buy.amount, buy.is_test, outs, chain,
                             blacklist, Tables)
        IN  /\ buy' = [buy EXCEPT !.called = TRUE, !.ret = r.ret, !.sent = r.sent,
                                 !.attempts = r.attempts,
                                 !.confirmed = r.confirmed]
            /\ blacklist' = r.blacklist
            /\ portfolio' = r.tables.portfolio
            /\ transactions' = r.tables.transactions
    /\ pc' = "bought"
    /\ UNCHANGED <<req, chain, loc, trace, result>>
    /\ UNCHANGED exec_vars

\* the caller of execute_buy goes on; the call's locals are gone
BuyReturns ==
    /\ pc = "bought"
    /\ pc' = "idle"
    /\ buy' = NoBuy
    /\ chain' = NoChain
    /\ UNCHANGED <<req, loc, trace, result, blacklist, portfolio, transactions>>
    /\ UNCHANGED exec_vars

\* execute_sell is called for a token the wallet bought, with or without
\* an amount, a position id and the test flag
SellCall(id, has_amount, with_id, is_test) ==
    /\ pc = "idle"
    /\ ~sweep.running
    /\ id \in DOMAIN portfolio
    /\ Len(transactions) < MaxRows
    /\ pc' = "selling"
    /\ sell' = [NoSell EXCEPT !.args =
                    SellArgs(portfolio[id].token_address, portfolio[id].token_symbol,
                             has_amount,
                             IF has_amount THEN portfolio[id].amount_tokens ELSE 0,
                             IF with_id THEN id ELSE 0, is_test)]
    /\ UNCHANGED <<req, chain, loc, trace, result, buy, blacklist, portfolio,
                   transactions, sweep, clock>>
    /\ UNCHANGED more_vars

\* execute_sell runs to its return, its attempts ending as one of `schedules`
SellDoneWith(schedules) ==
    /\ pc = "selling"
    /\ \E r \in {execute_sell(sell.args, outs,
                               [balance |-> bal, quote |-> MAX_INVESTMENT_PER_TOKEN],
                               Tables) :
                    outs \in schedules, bal \in BalanceValues \cup {0}} :
            /\ sell' = SellRecord(sell.args, r)
            /\ portfolio' = r.tables.portfolio
            /\ transactions' = r.tables.transactions
    /\ pc' = "sold"
    /\ UNCHANGED <<req, chain, loc, trace, result, buy, blacklist, sweep, clock>>
    /\ UNCHANGED more_vars

SellDone == SellDoneWith(SellSchedules)

\* the same, with the failures told apart by what they record
SellDoneRecording == SellDoneWith(AllSellSchedules)

\* the caller of execute_sell goes on; the call's locals are gone
SellReturns ==
    /\ pc = "sold"
    /\ pc' = "idle"
    /\ sell' = NoSell
    /\ UNCHANGED <<req, chain, loc, trace, result, buy, blacklist, portfolio,
                   transactions, sweep, clock>>
    /\ UNCHANGED more_vars

\* monitor_portfolio starts: it reads the active positions once
MonitorPortfolio ==
    /\ pc = "idle"
    /\ ~sweep.running
    /\ get_active_portfolio(portfolio) # <<>>
    /\ sweep' = [running |-> TRUE, entries |-> get_active_portfolio(portfolio),
                 i |-> 1, log |-> <<>>]
    /\ UNCHANGED <<pc, req, chain, loc, trace, result, buy, blacklist, portfolio,
                   transactions, sell, clock>>
    /\ UNCHANGED more_vars

\* why fetch_token_data gave monitor_portfolio nothing: the address is on
\* the blacklist, the name or symbol holds a pattern, or the reads failed
fetch_note(f) == IF f.out \in {"blacklisted", "pattern"} THEN f.out ELSE "no_data"

\* the entry has been processed without an execute_sell call
Noted(e, out, value) ==
    /\ sweep' = [sweep EXCEPT !.i = after_entry(sweep.i, out, Len(sweep.entries)),
                              !.log = Append(sweep.log,
                                        Evaluation(e.id, out, value, 0, 0, "none"))]
    /\ UNCHANGED <<portfolio, transactions, sell>>

\* the body of the for loop of monitor_portfolio, for the entry it is at
MonitorEntry ==
    /\ pc = "idle"
    /\ sweep.running
    /\ sweep.i <= Len(sweep.entries)
    /\ LET e == sweep.entries[sweep.i]
           ch == HeldFacts(MetadataOf(e.row.token_symbol), e.row.amount_tokens)
           args == SellArgs(e.row.token_address, e.row.token_symbol,
                            TRUE, e.row.amount_tokens, e.id, FALSE)
       IN  \E f \in {fetch_token_data(e.row.token_address, fouts, ch, blacklist) :
                        fouts \in ReadSchedules} :
            /\ blacklist' = f.blacklist
            /\ IF ~f.ok
               THEN Noted(e, fetch_note(f), 0)
               ELSE \/ Noted(e, "no_value", 0)
                    \/ \E q \in QuoteValues :
                        LET out == exit_rule(e.row, q, clock)
                        IN  \/ Noted(e, "raised", q)
                            \/ out = "hold" /\ Noted(e, "hold", q)
                            \/ /\ out # "hold"
                               /\ \E r \in {execute_sell(args, souts,
                                                [balance |-> e.row.amount_tokens,
                                                 quote |-> q], Tables) :
                                                souts \in SellSchedules} :
                                    /\ portfolio' = r.tables.portfolio
                                    /\ transactions' = r.tables.transactions
                                    /\ sweep' = [sweep EXCEPT
                                          !.i = after_entry(sweep.i, out,
                                                            Len(sweep.entries)),
                                          !.log = Append(sweep.log,
                                                    Evaluation(e.id, out, q, 1,
                                                               args.amount, r.ret))]
                                    /\ sell' = sell
    /\ UNCHANGED <<pc, req, chain, loc, trace, result, buy, clock>>
    /\ UNCHANGED more_vars

\* monitor_portfolio returns after the last entry
MonitorReturn ==
    /\ pc = "idle"
    /\ sweep.running
    /\ sweep.i > Len(sweep.entries)
    /\ sweep' = NoSweep
    /\ UNCHANGED <<pc, req, chain, loc, trace, result, buy, blacklist, portfolio,
                   transactions, sell, clock>>
    /\ UNCHANGED more_vars

\* time passes
Tick ==
    /\ pc = "idle"
    /\ ~sweep.running
    /\ clock + MAX_HOLDING_TIME <= MaxClock
    /\ clock' = clock + MAX_HOLDING_TIME
    /\ UNCHANGED <<pc, req, chain, loc, trace, result, buy, blacklist, portfolio,
                   transactions, sell, sweep>>
    /\ UNCHANGED more_vars

ExitNext ==
    \/ \E a \in Address, is_test \in BOOLEAN : BuyCall(a, is_test)
    \/ BuyDone
    \/ BuyReturns
    \/ \E id \in 1..MaxHeld, has_amount \in BOOLEAN, with_id \in BOOLEAN,
          is_test \in BOOLEAN : SellCall(id, has_amount, with_id, is_test)
    \/ SellDone
    \/ SellReturns
    \/ MonitorPortfolio
    \/ MonitorEntry
    \/ MonitorReturn
    \/ Tick
    \/ \E a \in Address : RemoveFromBlacklist(a)

ExitSpec == Init /\ [][ExitNext]_vars

(***************************************************************************)
(* The tiered take-profit and the gradual-sell queue, called directly      *)
(* (trading/profit_management.py, trading/sell.py)                         *)
(***************************************************************************)
\* ((current_value - investment) / investment) * 100, and 0
\* for an investment of 0
calculate_profit_percentage(current_value, investment) ==
    IF investment = 0
    THEN Float(0, 0)
    ELSE LET v == from_hundredths(current_value)
             inv == from_hundredths(investment)
         IN  float_times(float_div(float_sub(v, inv), inv), 100)

\* the share of amount_tokens the tiers sell, in percent; 0: no sale
tier_percent(profit_percentage) ==
    IF float_at_least(profit_percentage, 100) THEN 75
    ELSE IF float_at_least(profit_percentage, 50) THEN 50
    ELSE IF float_at_least(profit_percentage, TAKE_PROFIT_PERCENTAGE) THEN 25
    ELSE 0

\* the values estimate_bnb_output gives execute_take_profit_strategy, in
\* hundredths of a BNB: below, at and above each tier of an investment of
\* MAX_INVESTMENT_PER_TOKEN
StrategyValues ==
    {MAX_INVESTMENT_PER_TOKEN, MAX_INVESTMENT_PER_TOKEN + 1,
     MAX_INVESTMENT_PER_TOKEN + 2, MAX_INVESTMENT_PER_TOKEN + 3,
     2 * MAX_INVESTMENT_PER_TOKEN, 2 * MAX_INVESTMENT_PER_TOKEN + 1}

StrategyResult(status, reason, sell_amount, tokens_sold, sells, r, tables) ==
    [status |-> status, reason |-> reason, sell_amount |-> sell_amount,
     tokens_sold |-> tokens_sold, sells |-> sells, attempts |-> r.attempts,
     sell_ret |-> r.ret, tables |-> tables]

\* execute_take_profit_strategy; `est` is what estimate_bnb_output returns
\* for the whole position, `outs` how the attempts of execute_sell end
execute_take_profit_strategy(a, symbol, amount_tokens, investment, portfolio_id, est, outs, tables) ==
    LET none == [ret |-> "none", attempts |-> <<>>]
    IN  IF ~est.ok
        THEN StrategyResult("failed", "Failed to estimate current value", 0, 0, 0,
                            none, tables)
        ELSE
        LET percent == tier_percent(calculate_profit_percentage(est.value,
                                                                investment))
            sell_amount == (amount_tokens * percent) \div 100
            r == execute_sell(SellArgs(a, symbol, TRUE, sell_amount, portfolio_id, FALSE),
                              outs, [balance |-> amount_tokens, quote |-> est.value],
                              tables)
        IN  IF percent = 0
            THEN StrategyResult("skipped", "Profit threshold not met", 0, 0, 0,
                                none, tables)
            ELSE IF r.ret = "success"
            THEN StrategyResult("success", "none", sell_amount, sell_amount, 1,
                                r, r.tables)
            ELSE StrategyResult("failed", "Sell execution failed", sell_amount, 0, 1,
                                r, r.tables)

\* queue_token_for_gradual_selling: the import of add_to_sell_queue is the
\* first statement of the try; any exception makes the function return False
queue_token_for_gradual_selling(a, total_amount, now) ==
    IF ImportRaises("add_to_sell_queue")
    THEN [ret |-> FALSE, entries |-> <<>>]
    ELSE [ret |-> TRUE, entries |-> schedule_entries(a, total_amount, now)]

\* execute_take_profit_strategy is called for a position of the portfolio
\* and runs to its return
TakeProfitStrategy(id, investment) ==
    /\ pc = "idle"
    /\ ~sweep.running
    /\ id \in DOMAIN portfolio
    /\ Len(transactions) < MaxRows
    /\ LET row == portfolio[id]
       IN  \E est \in {[ok |-> FALSE, value |-> 0]}
                        \cup [ok : {TRUE}, value : StrategyValues] :
           \E r \in {execute_take_profit_strategy(row.token_address, row.token_symbol,
                           row.amount_tokens, investment, id, est, outs, Tables) :
                        outs \in SellSchedules} :
            /\ strategy' = [NoCall EXCEPT
                    !.has_value = est.ok, !.value = est.value,
                    !.op = "take_profit", !.amount_tokens = row.amount_tokens,
                    !.investment_amount = investment, !.portfolio_id = id,
                    !.status = r.status, !.reason = r.reason,
                    !.sell_amount = r.sell_amount, !.tokens_sold = r.tokens_sold,
                    !.sells = r.sells, !.attempts = r.attempts,
                    !.sell_ret = r.sell_ret]
            /\ portfolio' = r.tables.portfolio
            /\ transactions' = r.tables.transactions
    /\ pc' = "called"
    /\ UNCHANGED <<req, chain, loc, trace, result, buy, blacklist, sell, sweep, clock,
                   threads, wallet>>

\* queue_token_for_gradual_selling is called for the tokens of a position
QueueTokenForGradualSelling(id) ==
    /\ pc = "idle"
    /\ ~sweep.running
    /\ id \in DOMAIN portfolio
    /\ LET row == portfolio[id]
           r == queue_token_for_gradual_selling(row.token_address, row.amount_tokens,
                                                clock)
       IN  strategy' = [NoCall EXCEPT !.op = "queue",
                                      !.amount_tokens = row.amount_tokens,
                                      !.queued = r.ret, !.entries = r.entries]
    /\ pc' = "called"
    /\ UNCHANGED <<req, chain, loc, trace, result, buy, blacklist, portfolio,
                   transactions, sell, sweep, clock, threads, wallet>>

\* the caller of either function goes on; the call's locals are gone
StrategyReturns ==
    /\ pc = "called"
    /\ pc' = "idle"
    /\ strategy' = NoCall
    /\ UNCHANGED <<req, chain, loc, trace, result, buy, blacklist, portfolio,
                   transactions, sell, sweep, clock, threads, wallet>>

CallNext ==
    \/ \E a \in Address, is_test \in BOOLEAN : BuyCall(a, is_test)
    \/ BuyDone
    \/ BuyReturns
    \/ \E id \in 1..MaxHeld, has_amount \in BOOLEAN, with_id \in BOOLEAN,
          is_test \in BOOLEAN : SellCall(id, has_amount, with_id, is_test)
    \/ SellDoneRecording
    \/ SellReturns
    \/ \E id \in 1..MaxHeld, inv \in {0, MAX_INVESTMENT_PER_TOKEN} :
            TakeProfitStrategy(id, inv)
    \/ \E id \in 1..MaxHeld : QueueTokenForGradualSelling(id)
    \/ StrategyReturns

CallSpec == Init /\ [][CallNext]_vars

(***************************************************************************)
(* The running process: the listener thread and the monitoring thread      *)
(* (main.py, tokendata/discovery.py, portfolio/management.py), and the     *)
(* transactions they send from the one wallet (trading/buy.py,             *)
(* trading/sell.py). A step is what a thread does between two points where *)
(* the other thread can run: each call to the node is one.                 *)
(***************************************************************************)
MaxNonce == 3

\* a thread at `at`: the entries of its sweep and its place in them, the
\* position it is selling or the token it is buying, the attempt, the nonce
\* it fetched and what for, whether the sweep has seen a failure and
\* whether the sweep before had
Thread(role, at) ==
    [role |-> role, pc |-> at, entries |-> <<>>, i |-> 0, selling |-> 0,
     token |-> [id |-> "T1", form |-> "invalid"], attempt |-> 0, approved |-> FALSE,
     nonce |-> 0, kind |-> "none", failed |-> FALSE, prev_failed |-> FALSE]

\* mutant: the monitoring is started a second time
start_portfolio_monitoring_twice == {"monitoring_thread", "monitoring_thread_2"}

\* the threads start_portfolio_monitoring starts
start_portfolio_monitoring == {"monitoring_thread"}

\* the threads start_pair_listener starts
start_pair_listener == {"listener_thread"}

\* mutant: the handler of the monitoring thread leaves the loop
after_sweep_stopping(failed) == IF failed THEN "stopped" ELSE "sleeping"

\* monitoring_thread after monitor_portfolio returned or raised: the
\* exception is logged and the loop goes on to time.sleep
after_sweep(failed) == "sleeping"

\* run_token_sniper in auto mode: the monitoring is started, then the
\* listener; the main thread sleeps
RunAutoMode ==
    /\ pc = "idle"
    /\ ~threads.started
    /\ threads' = [started |-> TRUE,
                   of |-> [t \in start_portfolio_monitoring \cup start_pair_listener |->
                            IF t \in start_portfolio_monitoring
                            THEN Thread("monitor", "sleeping")
                            ELSE Thread("listener", "polling")]]
    /\ UNCHANGED <<pc, req, chain, loc, trace, result, buy, blacklist, portfolio,
                   transactions, sell, sweep, clock, strategy, wallet>>

Running(t, role) ==
    /\ threads.started
    /\ t \in DOMAIN threads.of
    /\ threads.of[t].role = role

Becomes(t, th) == threads' = [threads EXCEPT !.of[t] = th]

StoreUnchanged == UNCHANGED <<blacklist, portfolio, transactions>>

RestUnchanged ==
    UNCHANGED <<pc, req, chain, loc, trace, result, buy, sell, sweep, clock, strategy>>

\* the interval is over: monitor_portfolio starts and reads the active
\* positions; a failed connection check or store read leaves it none
MonitorWakes(t) ==
    /\ Running(t, "monitor")
    /\ threads.of[t].pc = "sleeping"
    /\ \E ok \in BOOLEAN :
        Becomes(t, [threads.of[t] EXCEPT
                        !.pc = "started",
                        !.entries = IF ok THEN get_active_portfolio(portfolio) ELSE <<>>,
                        !.i = 1,
                        !.prev_failed = threads.of[t].failed,
                        !.failed = ~ok])
    /\ StoreUnchanged
    /\ UNCHANGED wallet
    /\ RestUnchanged

\* the sweep at its next entry: the reads fail or something raises, the
\* rules say hold, or a rule asks for the sale and execute_sell is entered
MonitorReads(t) ==
    /\ Running(t, "monitor")
    /\ threads.of[t].pc \in {"started", "sweeping"}
    /\ threads.of[t].i <= Len(threads.of[t].entries)
    /\ LET th == threads.of[t]
           e == th.entries[th.i]
           rules == {exit_rule(e.row, q, clock) : q \in QuoteValues}
       IN  \/ Becomes(t, [th EXCEPT !.pc = "sweeping", !.i = th.i + 1, !.failed = TRUE])
           \/ /\ "hold" \in rules
              /\ Becomes(t, [th EXCEPT !.pc = "sweeping", !.i = th.i + 1])
           \/ /\ rules # {"hold"}
              /\ Becomes(t, [th EXCEPT !.pc = "attempt", !.selling = e.id,
                                       !.attempt = 0, !.approved = FALSE])
    /\ StoreUnchanged
    /\ UNCHANGED wallet
    /\ RestUnchanged

\* monitor_portfolio returns after its last entry; the thread sleeps
MonitorSleeps(t) ==
    /\ Running(t, "monitor")
    /\ threads.of[t].pc \in {"started", "sweeping"}
    /\ threads.of[t].i > Len(threads.of[t].entries)
    /\ Becomes(t, [threads.of[t] EXCEPT !.pc = after_sweep(threads.of[t].failed),
                                         !.entries = <<>>, !.i = 0])
    /\ StoreUnchanged
    /\ UNCHANGED wallet
    /\ RestUnchanged

\* the listener gets a PairCreated event whose token passes the analysis,
\* and execute_buy is entered
ListenerBuys(t, a) ==
    /\ Running(t, "listener")
    /\ threads.of[t].pc = "polling"
    /\ a.form = "checksum"
    /\ ~is_token_blacklisted(blacklist, a)
    /\ Len(portfolio) < MaxHeld
    /\ Becomes(t, [threads.of[t] EXCEPT !.pc = "attempt", !.token = a, !.attempt = 0])
    /\ StoreUnchanged
    /\ UNCHANGED wallet
    /\ RestUnchanged

\* execute_sell has returned to the sweep, which goes to its next entry
sell_returned(th, ok) ==
    [th EXCEPT !.pc = "sweeping", !.i = th.i + 1, !.selling = 0, !.attempt = 0,
               !.approved = FALSE, !.kind = "none", !.nonce = 0,
               !.failed = th.failed \/ ~ok]

\* execute_buy has returned to the listener
buy_returned(th) ==
    [th EXCEPT !.pc = "polling", !.token = [id |-> "T1", form |-> "invalid"],
               !.attempt = 0, !.kind = "none", !.nonce = 0]

\* the attempt has failed: the next one follows, and after the last one the
\* call returns
attempt_failed(th) ==
    IF th.attempt + 1 < max_retries
    THEN [th EXCEPT !.pc = "attempt", !.attempt = th.attempt + 1,
                    !.kind = "none", !.nonce = 0]
    ELSE IF th.role = "monitor" THEN sell_returned(th, FALSE) ELSE buy_returned(th)

\* the attempt raises before it has fetched a nonce
AttemptRaises(t) ==
    /\ threads.started
    /\ t \in DOMAIN threads.of
    /\ threads.of[t].pc = "attempt"
    /\ Becomes(t, attempt_failed(threads.of[t]))
    /\ StoreUnchanged
    /\ UNCHANGED wallet
    /\ RestUnchanged

\* w3.eth.get_transaction_count(config.WALLET_ADDRESS): the nonce of the
\* purchase, of the approval or of the swap
FetchNonce(t) ==
    /\ threads.started
    /\ t \in DOMAIN threads.of
    /\ threads.of[t].pc = "attempt"
    /\ wallet.count < MaxNonce
    /\ \E kind \in IF threads.of[t].role = "listener" THEN {"buy"}
                    ELSE IF threads.of[t].approved THEN {"swap"}
                    ELSE {"approve", "swap"} :
        Becomes(t, [threads.of[t] EXCEPT !.pc = "signed", !.kind = kind,
                                         !.nonce = wallet.count])
    /\ StoreUnchanged
    /\ UNCHANGED wallet
    /\ RestUnchanged

\* w3.eth.send_raw_transaction: the node takes the transaction, or, when
\* the wallet has sent the nonce before, may refuse it, which raises
Broadcast(t) ==
    /\ threads.started
    /\ t \in DOMAIN threads.of
    /\ threads.of[t].pc = "signed"
    /\ LET th == threads.of[t]
           again == th.nonce \in wallet.sent
       IN  /\ wallet' = [wallet EXCEPT
                            !.sent = wallet.sent \cup {th.nonce},
                            !.reused = IF again THEN wallet.reused \cup {th.nonce}
                                       ELSE wallet.reused]
           /\ \/ Becomes(t, [th EXCEPT !.pc = "receipt"])
              \/ again /\ Becomes(t, attempt_failed(th))
    /\ StoreUnchanged
    /\ RestUnchanged

\* wait_for_transaction_receipt: the transaction is mined with status 1 or
\* 0, or the wait times out; only the transaction whose nonce is the
\* wallet's count can be mined
Receipt(t, out) ==
    /\ threads.started
    /\ t \in DOMAIN threads.of
    /\ threads.of[t].pc = "receipt"
    /\ out \in {"success", "reverted"} => threads.of[t].nonce = wallet.count
    /\ wallet' = [wallet EXCEPT !.count = IF out = "timeout" THEN wallet.count
                                          ELSE wallet.count + 1]
    /\ LET th == threads.of[t]
       IN  IF out = "timeout"
           THEN Becomes(t, attempt_failed(th)) /\ StoreUnchanged
           ELSE IF th.kind = "buy"
           THEN /\ Becomes(t, buy_returned(th))
                /\ IF out = "success"
                   THEN /\ portfolio' = Append(portfolio,
                                Position(th.token, <<"C", "A", "T">>, 1000,
                                         MAX_INVESTMENT_PER_TOKEN, clock))
                        /\ transactions' = Append(transactions,
                                Transaction(th.token, <<"C", "A", "T">>, "buy", 1000,
                                            MAX_INVESTMENT_PER_TOKEN))
                        /\ UNCHANGED blacklist
                   ELSE /\ blacklist' = add_to_blacklist(blacklist, th.token,
                                <<"C", "A", "T">>, Reason("Buy transaction failed", <<>>))
                        /\ UNCHANGED <<portfolio, transactions>>
           ELSE IF th.kind = "approve"
           THEN /\ StoreUnchanged
                /\ IF out = "success"
                   THEN Becomes(t, [th EXCEPT !.pc = "attempt", !.approved = TRUE,
                                             !.kind = "none", !.nonce = 0])
                   ELSE Becomes(t, sell_returned(th, FALSE))
           ELSE IF out = "success"
           THEN /\ Becomes(t, sell_returned(th, TRUE))
                /\ portfolio' = update_portfolio_status(portfolio, th.selling, "sold")
                /\ transactions' = Append(transactions,
                        Transaction(portfolio[th.selling].token_address,
                                    portfolio[th.selling].token_symbol, "sell",
                                    portfolio[th.selling].amount_tokens,
                                    MAX_INVESTMENT_PER_TOKEN))
                /\ UNCHANGED blacklist
           ELSE Becomes(t, attempt_failed(th)) /\ StoreUnchanged
    /\ RestUnchanged

ThreadNames == start_portfolio_monitoring \cup start_pair_listener

\* the steps of the monitoring threads
MonitorSteps ==
    \E t \in start_portfolio_monitoring :
        \/ MonitorWakes(t) \/ MonitorReads(t) \/ MonitorSleeps(t)
        \/ AttemptRaises(t) \/ FetchNonce(t) \/ Broadcast(t)
        \/ \E out \in {"success", "reverted", "timeout"} : Receipt(t, out)

LoopNext ==
    \/ RunAutoMode
    \/ \E t \in ThreadNames : MonitorWakes(t)
    \/ \E t \in ThreadNames : MonitorReads(t)
    \/ \E t \in ThreadNames : MonitorSleeps(t)
    \/ \E t \in ThreadNames, a \in Address : ListenerBuys(t, a)
    \/ \E t \in ThreadNames : AttemptRaises(t)
    \/ \E t \in ThreadNames : FetchNonce(t)
    \/ \E t \in ThreadNames : Broadcast(t)
    \/ \E t \in ThreadNames, out \in {"success", "reverted", "timeout"} : Receipt(t, out)

LoopSpec == Init /\ [][LoopNext]_vars

\* the operating system runs the monitoring thread again and again, and
\* every call it makes to the node or the store returns or times out
LoopFairSpec == LoopSpec /\ WF_vars(MonitorSteps)

(***************************************************************************)
(* The retry loop of execute_sell and the parameters it computes for an    *)
(* attempt (trading/sell.py 114-117, 222-249, 286-400). The attempts are    *)
(* those that reach the computation: the token contract is there, the      *)
(* amount is above the dust threshold, the allowance suffices and the      *)
(* router gave a quote. The failure reasons are texts, as the code searches *)
(* them. Slippage is in percentage points, a gas multiplier in thousandths, *)
(* min_bnb in ten-thousandths of a BNB: a quote in hundredths times a whole *)
(* percentage is a whole number of those, so int() cuts nothing off.       *)
(***************************************************************************)
\* the max_retries argument of execute_sell the loop is run with
MaxAttempts == 5
\* config.SLIPPAGE, in percentage points
SLIPPAGE == 10
\* config.GAS_MULTIPLIER: 1.2, in tenths
GAS_MULTIPLIER == 12

\* decode_revert_reason found no revert text
UnknownReason ==
    <<"U","n","k","n","o","w","n"," ","r","e","a","s","o","n">>
\* a revert text decode_revert_reason returns
PriceImpactReason ==
    <<"e","x","e","c","u","t","i","o","n"," ","r","e","v","e","r","t","e","d",":"," ","P","r","i","c","e"," ","I","m","p","a","c","t"," ","t","o","o"," ","h","i","g","h">>
\* the tag of sell.py 347
OutOfGasHint ==
    <<"O","U","T","_","O","F","_","G","A","S">>
\* the message of an exception the node's answer raises
IntrinsicGasMessage ==
    <<"i","n","t","r","i","n","s","i","c"," ","g","a","s"," ","t","o","o"," ","l","o","w">>
\* the message of an exception the router's answer raises
SlippageMessage ==
    <<"e","x","e","c","u","t","i","o","n"," ","r","e","v","e","r","t","e","d",":"," ","S","L","I","P","P","A","G","E">>

\* what a receipt with status 0 adds as the reason decode_revert_reason gave
RevertReasons == {UnknownReason, PriceImpactReason}

\* str(e) of the exceptions an attempt raises
RaisedMessages == {IntrinsicGasMessage, SlippageMessage}

\* gas_used / int(gas_limit) * 100 of a receipt
GasUsageValues == {95, 96}

\* mutant: the reasons are searched as they are written
slippage_seen_as_written(reasons) ==
    \E i \in DOMAIN reasons :
        \/ Contains(<<"p","r","i","c","e"," ","i","m","p","a","c","t">>, reasons[i])
        \/ Contains(<<"s","l","i","p","p","a","g","e">>, reasons[i])

\* any('price impact' in reason.lower() ...) or any('slippage' in
\* reason.lower() ...)
slippage_seen(reasons) ==
    \E i \in DOMAIN reasons :
        \/ Contains(<<"p","r","i","c","e"," ","i","m","p","a","c","t">>, Lower(reasons[i]))
        \/ Contains(<<"s","l","i","p","p","a","g","e">>, Lower(reasons[i]))

\* any('gas' in reason.lower() for reason in failure_reasons)
gas_seen(reasons) ==
    \E i \in DOMAIN reasons : Contains(<<"g","a","s">>, Lower(reasons[i]))

Min(x, y) == IF x <= y THEN x ELSE y

\* sell.py 223-229
extra_slippage(attempt, reasons) ==
    LET base_extra_slippage == Min(10 * attempt, 30)
    IN  IF slippage_seen(reasons)
        THEN Min(base_extra_slippage + 15, 49)
        ELSE base_extra_slippage

\* sell.py 231-235: estimated_bnb * (100 - effective_slippage) / 100
min_bnb(estimated_bnb, attempt, reasons) ==
    LET effective_slippage == SLIPPAGE + extra_slippage(attempt, reasons)
    IN  estimated_bnb * (100 - effective_slippage)

\* mutant: a gas failure does not raise the multiplier further
gas_multiplier_base_only(attempt, reasons) ==
    GAS_MULTIPLIER * (10 + 2 * attempt) * 10

\* sell.py 237-245: config.GAS_MULTIPLIER * gas_base_multiplier, times 1.5
\* after a failure that mentions gas
gas_multiplier(attempt, reasons) ==
    LET gas_base_multiplier == 10 + 2 * attempt
    IN  IF gas_seen(reasons)
        THEN GAS_MULTIPLIER * gas_base_multiplier * 15
        ELSE GAS_MULTIPLIER * gas_base_multiplier * 10

\* mutant: the gas usage is looked at whatever the status of the receipt
likely_out_of_gas_any_status(status, gas_usage_percent) == gas_usage_percent > 95

\* sell.py 294, 345-347: the receipt has not status 1 and
\* gas_usage_percent > 95
likely_out_of_gas(status, gas_usage_percent) ==
    status # 1 /\ gas_usage_percent > 95

NoReceipt == [status |-> 2, gas_usage_percent |-> 0]

\* a call of execute_sell at `at` of its loop; hinted_before tells whether
\* the failure_reasons of the call before held the OUT_OF_GAS tag
SellLoop(at, attempt, reasons, estimated_bnb, hinted_before) ==
    [op |-> "execute_sell", at |-> at, attempt |-> attempt,
     failure_reasons |-> reasons, estimated_bnb |-> estimated_bnb,
     extra_slippage |-> 0, min_bnb |-> 0, gas_multiplier |-> 0,
     receipt |-> NoReceipt, ret |-> "none", hinted_before |-> hinted_before]

Holds(reasons, text) == \E i \in DOMAIN reasons : reasons[i] = text

LoopUnchanged ==
    /\ UNCHANGED <<pc, req, chain, loc, trace, result, buy, blacklist, portfolio,
                   transactions, sell, sweep, clock, threads, wallet>>

\* sell.py 114-117: execute_sell is entered; failure_reasons = []
ExecuteSellCalled(estimated_bnb) ==
    /\ \/ strategy.op = "none"
       \/ strategy.op = "execute_sell" /\ strategy.at = "returned"
    /\ strategy' = SellLoop("top", 0, <<>>, estimated_bnb,
                            /\ strategy.op = "execute_sell"
                            /\ Holds(strategy.failure_reasons, OutOfGasHint))
    /\ LoopUnchanged

\* sell.py 222-249: the slippage, the minimum output and the gas multiplier
\* of the attempt
ComputeParameters ==
    /\ strategy.op = "execute_sell"
    /\ strategy.at = "top"
    /\ strategy' =
        [strategy EXCEPT
            !.at = "computed",
            !.extra_slippage = extra_slippage(strategy.attempt, strategy.failure_reasons),
            !.min_bnb = min_bnb(strategy.estimated_bnb, strategy.attempt,
                                strategy.failure_reasons),
            !.gas_multiplier = gas_multiplier(strategy.attempt, strategy.failure_reasons),
            !.receipt = NoReceipt]
    /\ LoopUnchanged

\* the loop after an attempt that failed: the next attempt, or the return
\* after the last
after_failure(s, reasons, receipt) ==
    IF s.attempt + 1 < MaxAttempts
    THEN [s EXCEPT !.at = "top", !.attempt = s.attempt + 1,
                   !.failure_reasons = reasons, !.receipt = receipt]
    ELSE [s EXCEPT !.at = "returned", !.attempt = s.attempt + 1,
                   !.failure_reasons = reasons, !.receipt = receipt,
                   !.ret = "failed"]

\* sell.py 286-348: the receipt of the swap is there
SwapReceipt(status, gas_usage_percent, reason) ==
    /\ strategy.op = "execute_sell"
    /\ strategy.at = "computed"
    /\ LET receipt == [status |-> status, gas_usage_percent |-> gas_usage_percent]
           reasons == strategy.failure_reasons
                        \o (IF status = 1 THEN <<>> ELSE <<reason>>)
                        \o (IF likely_out_of_gas(status, gas_usage_percent)
                            THEN <<OutOfGasHint>> ELSE <<>>)
       IN  strategy' =
             IF status = 1
             THEN [strategy EXCEPT !.at = "returned", !.failure_reasons = reasons,
                                   !.receipt = receipt, !.ret = "success"]
             ELSE after_failure(strategy, reasons, receipt)
    /\ LoopUnchanged

\* sell.py 379-381: a step of the attempt raises and str(e) is recorded
SellAttemptRaises(message) ==
    /\ strategy.op = "execute_sell"
    /\ strategy.at = "computed"
    /\ strategy' = after_failure(strategy, Append(strategy.failure_reasons, message),
                                 NoReceipt)
    /\ LoopUnchanged

AttemptNext ==
    \/ \E q \in {MAX_INVESTMENT_PER_TOKEN, MAX_INVESTMENT_PER_TOKEN + 2} :
            ExecuteSellCalled(q)
    \/ ComputeParameters
    \/ \E status \in {0, 1}, p \in GasUsageValues, reason \in RevertReasons :
            SwapReceipt(status, p, reason)
    \/ \E message \in RaisedMessages : SellAttemptRaises(message)

AttemptSpec == Init /\ [][AttemptNext]_vars

(***************************************************************************)
(* Vocabulary of the properties                                            *)
(***************************************************************************)
StageNames == {Stages[i] : i \in DOMAIN Stages}

\* the analysis has returned and the handler has not yet returned
Analysed == pc \in {"analysed", "handled"}

\* outcomes with which a stage lets the token through
PassingOuts ==
    {"absent", "fetched", "found", "sufficient", "clean", "disabled", "no_api_key",
     "exhausted", "http_error", "api_error", "enough", "estimated"}

Passed(call) == call.out \in PassingOuts

\* outcomes of a stage none of whose attempts could read the chain
UnreadableOuts == {"timeouts", "errors"}

LastCall == trace[Len(trace)]

\* some entry of the blacklist is for the token the request names
Blacklisted(a) == \E k \in DOMAIN blacklist : k.id = a.id

\* name or symbol contains a configured pattern, whatever the letter case
LexicalHit(ch) ==
    \E i \in DOMAIN BLACKLISTED_PATTERNS :
        \/ Contains(BLACKLISTED_PATTERNS[i], Lower(ch.name))
        \/ Contains(BLACKLISTED_PATTERNS[i], Lower(ch.symbol))

\* the pair does not exist, or its base-asset side is below the minimum
LowLiquidity(ch) ==
    \/ ch.pair = ZeroAddress
    \/ (IF ch.token0 = "WBNB" THEN ch.reserves[1] ELSE ch.reserves[2]) < MIN_LIQUIDITY

\* the byte that encodes a character of the suspicious patterns
AsciiByte(c) ==
    IF c = "(" THEN 40
    ELSE 96 + (CHOOSE i \in DOMAIN LowerChars : LowerChars[i] = c)

AsciiBytes(text) == [i \in DOMAIN text |-> AsciiByte(text[i])]

\* the bytecode holds the bytes of a suspicious pattern
SuspiciousCode(code) ==
    \E i \in DOMAIN suspicious_patterns :
        \E k \in 0..(Len(code) - Len(suspicious_patterns[i])) :
            SubSeq(code, k + 1, k + Len(suspicious_patterns[i]))
                = AsciiBytes(suspicious_patterns[i])

\* the explorer could not be used by the sell-history stage
ExplorerUnavailable(call) ==
    /\ call.stage = "sell_history"
    /\ call.out \in {"no_api_key", "http_error", "api_error", "exhausted"}

(***************************************************************************)
(* Properties                                                              *)
(***************************************************************************)
\* C1: the stages run in the fixed order lookup, metadata, pair, liquidity,
\* bytecode, sell history, honeypot; the first stage that fails ends the run
\* with a rejection and nothing runs after it; an acceptance is returned
\* only when all seven stages have let the token through.
C1_StageOrder ==
    /\ Len(trace) <= Len(Stages)
    /\ \A i \in DOMAIN trace : trace[i].stage = Stages[i]
    /\ \A i \in DOMAIN trace : i < Len(trace) => Passed(trace[i])
    /\ pc \in StageNames => Len(trace) = StageIndex(pc) - 1 /\ result = "none"
    /\ (trace # <<>> /\ ~Passed(LastCall)) => result = "reject" /\ Analysed
    /\ result = "reject" => trace # <<>> /\ ~Passed(LastCall)
    /\ result = "accept" =>
            /\ Len(trace) = Len(Stages)
            /\ \A i \in DOMAIN trace : Passed(trace[i])

C1_Witness ==
    /\ pc = "analysed"
    /\ result = "reject"
    /\ Len(trace) = 6
    /\ LastCall.stage = "sell_history"
    /\ LastCall.out = "too_few"

\* C2: execute_buy is called only in a handling step whose analysis of the
\* same token returned an acceptance; after a rejection no buy is made and
\* no position is created.
C2_BuyOnlyAfterAccept ==
    [][ /\ (buy'.called /\ ~buy.called) =>
                /\ result = "accept"
                /\ buy'.token = req.token
                /\ loc.token_address.id = req.token.id
        /\ portfolio' # portfolio => result = "accept" /\ buy'.called
        /\ result \in {"reject", "raised"} =>
                ~buy'.called /\ portfolio' = portfolio /\ transactions' = transactions
      ]_vars

C2_Witness ==
    /\ pc = "handled"
    /\ req.mode = "discovery"
    /\ result = "accept"
    /\ buy.called
    /\ buy.ret = "success"
    /\ Len(portfolio) > 0

\* C3: screening an address that is on the blacklist, however the address
\* is written, ends in a rejection after the blacklist lookup alone: no
\* other stage is called and the blacklist is left as it was.
C3_BlacklistedShortCircuit ==
    [][ (pc = "lookup" /\ ~ChecksumRaises(req.token) /\ Blacklisted(req.token)) =>
            /\ pc' = "analysed"
            /\ result' = "reject"
            /\ trace' = <<Call("lookup", "blacklisted", 0)>>
            /\ blacklist' = blacklist
            /\ chain' = chain
      ]_vars

C3_Witness ==
    /\ pc = "analysed"
    /\ req.token.form = "lower"
    /\ result = "reject"
    /\ trace = <<Call("lookup", "blacklisted", 0)>>

\* C4 as the specification states it: every token whose name or symbol contains a configured
\* pattern is rejected and has a blacklist entry after the screening.
C4_Original ==
    (Analysed /\ result # "raised" /\ LexicalHit(chain)) =>
        /\ result = "reject"
        /\ Blacklisted(req.token)

\* C4 as it holds: every token whose name or symbol contains a configured
\* pattern, in any letter case, is rejected whatever its liquidity and
\* bytecode are; it has a blacklist entry after the screening unless every
\* attempt to read its metadata failed, and then it is rejected without an
\* entry being written.
C4_LexicalReject ==
    (Analysed /\ result # "raised" /\ LexicalHit(chain)) =>
        /\ result = "reject"
        /\ Len(trace) <= 2
        /\ \/ Blacklisted(req.token)
           \/ /\ LastCall.stage = "metadata"
              /\ LastCall.out \in UnreadableOuts
              /\ LastCall.writes = 0

C4_Witness ==
    /\ pc = "analysed"
    /\ chain.symbol = <<"G","E","M">>
    /\ ~LowLiquidity(chain)
    /\ result = "reject"
    /\ LastCall = Call("metadata", "pattern", 1)
    /\ loc.token_address \in DOMAIN blacklist
    /\ blacklist[loc.token_address].reason =
            Reason("Contains blacklisted pattern", <<"g","e","m">>)

\* C5: a candidate that passes the lexical check and whose pair does not
\* exist, or whose base-asset liquidity is strictly below the minimum, is
\* rejected, and no step of its screening changes the blacklist.
C5_LowLiquidityNoBlacklist ==
    /\ [](( Analysed /\ result # "raised" /\ ~LexicalHit(chain) /\ LowLiquidity(chain)) =>
            /\ result = "reject"
            /\ \A i \in DOMAIN trace : trace[i].writes = 0)
    /\ [][ (pc \in StageNames /\ ~LexicalHit(chain) /\ LowLiquidity(chain)) =>
                blacklist' = blacklist ]_vars

C5_Witness ==
    /\ pc = "analysed"
    /\ chain.token0 = "token"
    /\ chain.reserves[1] > MIN_LIQUIDITY
    /\ result = "reject"
    /\ LastCall = Call("liquidity", "insufficient", 0)
    /\ ~Blacklisted(req.token)

\* C6 as the specification states it: a candidate that reaches the bytecode stage and whose
\* bytecode holds a suspicious pattern is rejected by that stage and is on
\* the blacklist afterwards; sell history and honeypot are not run.
C6_Original ==
    (Analysed /\ Len(trace) >= 5 /\ Passed(trace[4]) /\ SuspiciousCode(chain.code)) =>
        /\ result = "reject"
        /\ Len(trace) = 5
        /\ Blacklisted(req.token)

\* C7: a stage that could not read the chain on any attempt (metadata,
\* pair, liquidity, bytecode, honeypot probe) ends the run with a
\* rejection; a token with such a stage is never accepted.
C7_UnreadableRejects ==
    \A i \in DOMAIN trace :
        trace[i].out \in UnreadableOuts =>
            /\ i = Len(trace)
            /\ result = "reject"
            /\ Analysed

C7_Witness ==
    /\ pc = "analysed"
    /\ result = "reject"
    /\ LastCall.stage = "bytecode"
    /\ LastCall.out = "timeouts"

\* C8 as the specification states it: a stage all of whose attempts timed out ends the run
\* without writing to the blacklist.
C8_Original ==
    \A i \in DOMAIN trace :
        trace[i].out = "timeouts" =>
            /\ trace[i].writes = 0
            /\ ~Blacklisted(req.token)

\* C9: when the explorer cannot be used (no API key, a non-200 response, an
\* error status, or every request raising) the sell-history stage lets the
\* token through: it writes nothing to the blacklist and the honeypot stage
\* is the next to run.
C9_ExplorerFailOpen ==
    \A i \in DOMAIN trace :
        (ExplorerUnavailable(trace[i]) \/ (trace[i].stage = "sell_history" /\ ~chain.api_key)) =>
            /\ trace[i].writes = 0
            /\ \/ pc = "honeypot" /\ i = Len(trace)
               \/ Len(trace) = i + 1 /\ trace[i + 1].stage = "honeypot"

C9_Witness ==
    /\ pc = "honeypot"
    /\ chain.api_key
    /\ LastCall = Call("sell_history", "exhausted", 0)
    /\ ~Blacklisted(req.token)

SellReturned == pc = "sold" /\ sell.called

\* the swap of attempt i was sent and reverted, or its receipt never came
SwapFailed(i) == sell.attempts[i].out \in {"timeout", "reverted"}

\* the reason the attempt with outcome out appends to failure_reasons
ReasonOf(out) ==
    IF out = "timeout" THEN "TimeExhausted"
    ELSE IF out = "reverted" THEN "Unknown reason"
    ELSE "error"

\* every attempt of the call ended without a confirmed swap and without an
\* early return
SellExhausted ==
    /\ Len(sell.attempts) = max_retries
    /\ \A i \in DOMAIN sell.attempts : sell.attempts[i].out \in SellContinuing

\* C12: execute_sell sends at most max_retries swap transactions and
\* returns; a reverted or timed-out swap below the ceiling is followed by
\* another attempt; when every attempt failed the call returns failed with
\* one reason per attempt, in the order of the attempts.
C12_SellRetries ==
    SellReturned =>
        /\ sell.sent <= max_retries
        /\ Len(sell.attempts) <= max_retries
        /\ sell.ret \in {"success", "failed", "skipped", "None"}
        /\ \A i \in DOMAIN sell.attempts :
                SwapFailed(i) /\ i < max_retries =>
                    Len(sell.attempts) > i \/ sell.ret = "skipped"
        /\ SellExhausted =>
                /\ sell.ret = "failed"
                /\ Len(sell.reasons) = max_retries
                /\ \A i \in DOMAIN sell.attempts :
                        sell.reasons[i] = ReasonOf(sell.attempts[i].out)

C12_Witness ==
    /\ SellReturned
    /\ SellExhausted
    /\ sell.sent = max_retries
    /\ sell.reasons = <<"Unknown reason", "TimeExhausted", "Unknown reason">>

\* execute_buy, called directly, has returned to its caller
BuyReturned == pc = "bought" /\ buy.called

\* the step in which a direct call of execute_buy runs to its return
BuyRuns == pc = "buying" /\ pc' = "bought"

\* C13, as the specification states it: execute_buy returns failed only
\* when no attempt is left, a reverted receipt being retried like a
\* timed-out one.
C13_Original ==
    BuyReturned /\ buy.ret = "failed" => buy.attempts = max_retries

\* the call ended on a receipt with status 0, or each of its max_retries
\* attempts sent a buy and timed out waiting for the receipt
BuyEndedWithoutSuccess ==
    \/ buy.ret = "failed"
    \/ buy.ret = "None" /\ buy.sent = max_retries /\ buy.confirmed = 0

\* C14, as the specification states it: a buy that is not a probe and ends
\* on a reverted receipt or with every attempt timed out leaves the token
\* on the blacklist, and a probe buy leaves the blacklist as it was.
C14_Original ==
    /\ [](BuyReturned /\ ~buy.is_test /\ BuyEndedWithoutSuccess
            => Blacklisted(buy.token))
    /\ [][BuyRuns /\ buy.is_test => blacklist' = blacklist]_vars

\* C15, as the specification states it: a call in which a buy was
\* confirmed adds one transaction entry and, unless it is a probe, one
\* active position whose investment is what the confirmed buys spent and
\* whose targets are the configured ones; a probe adds no position.
C15_Original ==
    [][BuyRuns /\ buy'.confirmed >= 1 =>
          /\ Len(transactions') = Len(transactions) + 1
          /\ buy.is_test => portfolio' = portfolio
          /\ ~buy.is_test =>
                /\ Len(portfolio') = Len(portfolio) + 1
                /\ SubSeq(portfolio', 1, Len(portfolio)) = portfolio
                /\ LET row == portfolio'[Len(portfolio')]
                   IN  /\ row.status = "active"
                       /\ row.investment_amount_bnb = buy'.amount * buy'.confirmed
                       /\ row.take_profit_target = TAKE_PROFIT_PERCENTAGE
                       /\ row.stop_loss_target = STOP_LOSS_PERCENTAGE
    ]_vars

\* the step in which a direct call of execute_sell runs to its return
SellRuns == pc = "selling" /\ pc' = "sold"

\* the call is tied to a position and is not a test sell
MarksSold(args) == args.portfolio_id # 0 /\ ~args.is_test

\* monitor_portfolio has just processed an entry
EntryNoted == Len(sweep'.log) = Len(sweep.log) + 1

\* what monitor_portfolio noted of the entry it processed last
LastNoted == sweep.log[Len(sweep.log)]

\* C16: a call of execute_sell whose swap is confirmed appends one
\* transaction entry for the sold amount; when a position id was given and
\* the sell is not a test sell that position's status becomes sold and no
\* other row changes; otherwise the portfolio stays as it was. The calls
\* monitor_portfolio makes give the position id and are no test sells.
C16_SellSuccess ==
    /\ [][EntryNoted /\ LastNoted'.ret = "success" =>
            /\ Len(transactions') = Len(transactions) + 1
            /\ SubSeq(transactions', 1, Len(transactions)) = transactions
            /\ transactions'[Len(transactions')].transaction_type = "sell"
            /\ portfolio' = [portfolio EXCEPT ![LastNoted'.id].status = "sold"]
       ]_vars
    /\ [][SellRuns /\ sell'.ret = "success" =>
          /\ Len(transactions') = Len(transactions) + 1
          /\ SubSeq(transactions', 1, Len(transactions)) = transactions
          /\ LET row == transactions'[Len(transactions')]
                 att == sell'.attempts[Len(sell'.attempts)]
             IN  /\ row.token_address = sell.args.token
                 /\ row.transaction_type = IF sell.args.is_test THEN "test_sell" ELSE "sell"
                 /\ row.amount_tokens = att.amount
          /\ IF MarksSold(sell.args)
             THEN portfolio' = [portfolio EXCEPT ![sell.args.portfolio_id].status = "sold"]
             ELSE portfolio' = portfolio
       ]_vars

C16_Witness ==
    /\ SellReturned
    /\ sell.ret = "success"
    /\ MarksSold(sell.args)
    /\ portfolio[sell.args.portfolio_id].status = "sold"
    /\ transactions[Len(transactions)].transaction_type = "sell"

\* the outcomes the specification gives to an execution call
StructuredOutcomes == {"success", "failed", "skipped"}

\* C17, as the specification states it: analyze_token ends in an accept or
\* a reject and never in an exception that reaches its caller, and
\* execute_buy and execute_sell return success, failed or skipped,
\* whatever the chain calls and the address conversion do.
C17_Original ==
    /\ Analysed => result \in {"accept", "reject"}
    /\ buy.called => buy.ret \in StructuredOutcomes
    /\ sell.called => sell.ret \in StructuredOutcomes

\* the exit conditions of the position of the k-th entry of the running
\* sweep, at the value monitor_portfolio estimated for it
TakeProfitHolds(k) ==
    should_take_profit(sweep.log[k].value,
                       sweep.entries[k].row.investment_amount_bnb,
                       sweep.entries[k].row.take_profit_target)

StopLossHolds(k) ==
    should_stop_loss(sweep.log[k].value,
                     sweep.entries[k].row.investment_amount_bnb,
                     sweep.entries[k].row.stop_loss_target)

HeldTooLong(k) ==
    should_sell_by_time(sweep.entries[k].row.purchase_time, clock, MAX_HOLDING_TIME)

\* monitor_portfolio called execute_sell for the k-th entry
SoldBySweep(k) == sweep.log[k].sells = 1

\* C18: in a sweep every position is processed once and execute_sell is
\* called at most once for it, for the first condition that holds in the
\* order take profit, stop loss, holding time; a position whose stop loss
\* and holding time conditions both hold is sold for the stop loss.
C18_ExitPriority ==
    sweep.running =>
        /\ Len(sweep.log) <= Len(sweep.entries)
        /\ \A j, k \in DOMAIN sweep.entries :
                sweep.entries[j].id = sweep.entries[k].id => j = k
        /\ \A k \in DOMAIN sweep.log :
                /\ sweep.log[k].id = sweep.entries[k].id
                /\ sweep.log[k].sells \in {0, 1}
                /\ SoldBySweep(k) =>
                    /\ sweep.log[k].out = "take_profit" <=> TakeProfitHolds(k)
                    /\ sweep.log[k].out = "stop_loss" <=>
                            ~TakeProfitHolds(k) /\ StopLossHolds(k)
                    /\ sweep.log[k].out = "max_holding" <=>
                            ~TakeProfitHolds(k) /\ ~StopLossHolds(k) /\ HeldTooLong(k)
                    /\ sweep.log[k].out \in {"take_profit", "stop_loss", "max_holding"}

C18_Witness ==
    /\ sweep.running
    /\ \E k \in DOMAIN sweep.log :
            /\ SoldBySweep(k)
            /\ StopLossHolds(k)
            /\ HeldTooLong(k)
            /\ sweep.log[k].out = "stop_loss"

\* monitor_portfolio estimated a value for the k-th entry and went through
\* the exit rules without an exception
Evaluated(k) ==
    sweep.log[k].out \in {"take_profit", "stop_loss", "max_holding", "hold"}

\* the value estimated for the k-th entry is at least the investment plus
\* the take-profit percentage; amounts are in hundredths of a BNB
AtTakeProfit(k) ==
    sweep.log[k].value * 100 >=
        sweep.entries[k].row.investment_amount_bnb
            * (100 + sweep.entries[k].row.take_profit_target)

\* the value is more than the investment minus the stop-loss percentage
AboveStopLoss(k) ==
    sweep.log[k].value * 100 >
        sweep.entries[k].row.investment_amount_bnb
            * (100 - sweep.entries[k].row.stop_loss_target)

\* C19, as the specification states it: a position whose estimated value
\* is at least investment * (1 + take_profit_target / 100), the boundary
\* included, is sold by the sweep for its full amount of tokens; a position
\* whose value is strictly between the two thresholds and that is younger
\* than the holding ceiling is not sold.
C19_Original ==
    sweep.running =>
        \A k \in DOMAIN sweep.log :
            Evaluated(k) =>
                /\ AtTakeProfit(k) =>
                        /\ SoldBySweep(k)
                        /\ sweep.log[k].amount = sweep.entries[k].row.amount_tokens
                /\ ~AtTakeProfit(k) /\ AboveStopLoss(k) /\ ~HeldTooLong(k) =>
                        ~SoldBySweep(k)

\* processing the k-th entry failed: no token data, no value, or an
\* exception in the body of the loop
EntryFailed(k) ==
    sweep.log[k].out \in {"blacklisted", "pattern", "no_data", "no_value", "raised"}

\* C20: a sweep processes the entries of its snapshot one after the other
\* and goes on to the next entry whatever happened to the one before; it
\* returns only when every entry of the snapshot has been processed.
C20_SweepIsolation ==
    /\ [](sweep.running =>
            /\ sweep.i = Len(sweep.log) + 1
            /\ \A k \in DOMAIN sweep.log : sweep.log[k].id = sweep.entries[k].id)
    /\ [][sweep.running /\ ~sweep'.running =>
            Len(sweep.log) = Len(sweep.entries)]_vars

C20_Witness ==
    /\ sweep.running
    /\ Len(sweep.log) = 2
    /\ EntryFailed(1)
    /\ Evaluated(2)
    /\ SoldBySweep(2)

\* a chain read failed, or an exception was raised, while the k-th entry
\* was processed
ReadsFailed(k) == sweep.log[k].out \in {"no_data", "no_value", "raised"}

\* C21, as the specification states it: a sweep evaluates the exit rules
\* for every position of its snapshot whose chain reads succeed, also when
\* the token is on the blacklist or its name holds a lexical pattern.
C21_Original ==
    sweep.running =>
        \A k \in DOMAIN sweep.log : ~ReadsFailed(k) => Evaluated(k)

\* execute_take_profit_strategy has returned to its caller
TookProfit == pc = "called" /\ strategy.op = "take_profit"

\* the profit of the position the strategy was called for, value over
\* investment, is at least k percent
ProfitAtLeast(k) ==
    /\ strategy.has_value
    /\ strategy.investment_amount > 0
    /\ (strategy.value - strategy.investment_amount) * 100
            >= k * strategy.investment_amount

\* the share of the position the tiers are to sell, in percent
TierOf ==
    IF ProfitAtLeast(100) THEN 75
    ELSE IF ProfitAtLeast(50) THEN 50
    ELSE IF ProfitAtLeast(TAKE_PROFIT_PERCENTAGE) THEN 25
    ELSE 0

\* the tokens the call sold: the amount of the sell it recorded
TokensSoldByStrategy ==
    IF strategy.sell_ret = "success"
    THEN transactions[Len(transactions)].amount_tokens
    ELSE 0

\* C23, as the specification states it: the tiered take-profit sells exactly
\* 75% of the position at a profit of 100% or more, 50% from 50%, 25% from
\* the base target, and below the base target sells nothing and returns
\* skipped.
C23_Original ==
    (TookProfit /\ strategy.has_value /\ strategy.investment_amount > 0) =>
        IF TierOf = 0
        THEN strategy.status = "skipped" /\ strategy.sells = 0
        ELSE /\ strategy.sells = 1
             /\ strategy.attempts[1].amount = (strategy.amount_tokens * TierOf) \div 100
             /\ strategy.status = "success" =>
                    TokensSoldByStrategy = (strategy.amount_tokens * TierOf) \div 100

\* C24, as the specification states it: one pass of the tiered take-profit
\* never closes the position: after a call of execute_take_profit_strategy,
\* also one whose partial sell succeeded, the position is still active.
C24_Original ==
    [][\A id \in DOMAIN portfolio :
        (/\ pc = "idle" /\ pc' = "called"
         /\ strategy'.op = "take_profit" /\ strategy'.portfolio_id = id
         /\ portfolio[id].status = "active")
        => portfolio'[id].status = "active"]_vars

\* queue_token_for_gradual_selling has returned to its caller
Enqueued == pc = "called" /\ strategy.op = "queue"

RECURSIVE SumOfAmounts(_)
SumOfAmounts(entries) ==
    IF entries = <<>> THEN 0
    ELSE Head(entries).sell_amount + SumOfAmounts(Tail(entries))

\* the entries are the five steps of a total: 5%, 10%, 15%, 20% and 50% of
\* it, due 5, 15, 30, 60 and 120 minutes after the call
FiveSteps(entries, total) ==
    /\ Len(entries) = 5
    /\ \A i \in 1..5 :
        /\ 100 * entries[i].sell_amount = <<5, 10, 15, 20, 50>>[i] * total
        /\ entries[i].delay_minutes = <<5, 15, 30, 60, 120>>[i]
    /\ \A i \in 1..4 : entries[i].delay_minutes < entries[i + 1].delay_minutes
    /\ SumOfAmounts(entries) = total

\* C25, as the specification states it: enqueueing a total T for gradual
\* selling creates exactly five schedule entries, of 5%, 10%, 15%, 20% and
\* 50% of T, which sum to T, with the strictly increasing delays of 5, 15,
\* 30, 60 and 120 minutes.
C25_Original ==
    Enqueued => FiveSteps(strategy.entries, strategy.amount_tokens)

\* execute_sell returned failed after max_retries attempts that each failed
SellRanOut ==
    /\ SellReturned
    /\ sell.ret = "failed"
    /\ Len(sell.attempts) = max_retries
    /\ \A i \in DOMAIN sell.attempts : sell.attempts[i].out \in SellContinuingAll

\* how many of the recorded failure reasons are one of the two tags
RestrictionTags ==
    Cardinality({i \in DOMAIN sell.reasons :
                    sell.reasons[i] \in {"ALWAYS_FAILING", "EXECUTION_REVERTED"}})

\* C26, as the specification states it: when the attempts are exhausted,
\* execute_sell hands the token to the gradual-sell queue exactly if at
\* least three of the recorded failures are ALWAYS_FAILING or
\* EXECUTION_REVERTED, and what it hands over is the remaining balance, not
\* an amount the retries have reduced.
C26_Original ==
    SellRanOut =>
        /\ (sell.queued # <<>>) <=> (RestrictionTags >= 3)
        /\ sell.queued # <<>> =>
                \E b \in BalanceValues : FiveSteps(sell.queued, b)

\* an attempt before the i-th recorded a reason that speaks of gas
GasBefore(i) ==
    \E j \in 1..(i - 1) : mentions_gas(failure_reasons(sell.attempts[j].out))

\* the amount of attempt n (from 0) of a sell of A: A * 0.8^n, and A * 0.5^n
\* after a failure that speaks of gas
FromOriginal(A, n, gas) ==
    IF gas THEN A \div (2 ^ n) ELSE (A * (8 ^ n)) \div (10 ^ n)

\* C29, as the specification states it: for a sell with an explicit amount
\* A, the amount of attempt n (from 0) is A * 0.8^n while no earlier failure
\* reason mentions gas or "exceed", and A * 0.5^n once one does: the factor
\* applies to the amount originally asked for, not to the reduced one.
C29_Original ==
    (SellReturned /\ sell.args.has_amount) =>
        \A i \in DOMAIN sell.attempts :
            sell.attempts[i].amount = FromOriginal(sell.args.amount, i - 1, GasBefore(i))

\* C30, as the specification states it: the reduction applies only to a
\* call with an explicit amount; without one every attempt, retries
\* included, sells the full balance of the wallet.
C30_Original ==
    (SellReturned /\ ~sell.args.has_amount) =>
        \A i, j \in DOMAIN sell.attempts :
            (sell.attempts[i].amount > 0 /\ sell.attempts[j].amount > 0)
                => sell.attempts[i].amount = sell.attempts[j].amount

\* thread t has just started a sweep
SweepStarted(t) == threads.started /\ threads.of[t].pc = "started"

\* the sweep of thread t has seen a call fail or raise
SweepFailed(t) == threads.started /\ threads.of[t].failed

\* C22: the exit-policy loop does not stop at a failure. Once the
\* monitoring thread runs, it starts a sweep again and again, and a sweep
\* in which a sell, a store call or a chain call failed or raised is
\* followed by the start of the next sweep.
C22_SweepRestarts ==
    \A t \in start_portfolio_monitoring :
        /\ [](threads.started => <>SweepStarted(t))
        /\ SweepFailed(t) ~> (SweepStarted(t) /\ threads.of[t].prev_failed)

\* a sweep has started after a sweep that saw a failure, a position being
\* open and a transaction having been sent
C22_Witness ==
    \E t \in start_portfolio_monitoring :
        /\ SweepStarted(t)
        /\ threads.of[t].prev_failed
        /\ wallet.sent # {}
        /\ \E i \in DOMAIN portfolio : portfolio[i].status = "active"

\* the threads that are inside an execute_sell call for position id
SellsInProgress(id) ==
    {t \in DOMAIN threads.of : threads.of[t].selling = id}

\* thread t enters execute_sell for position id in this step
SellStarts(t, id) ==
    /\ threads.started
    /\ threads.of[t].selling # id
    /\ threads'.of[t].selling = id

\* C27: the sell attempts on one position are strictly sequential. No two
\* execute_sell calls for the same position id are in progress at once, and
\* a sell of a position starts only when no earlier sell of it is in
\* progress and the store holds the outcome of the earlier ones: the
\* position is still active there.
C27_SellsSequential ==
    /\ [](threads.started =>
            \A id \in DOMAIN portfolio : Cardinality(SellsInProgress(id)) <= 1)
    /\ [][\A t \in DOMAIN threads.of, id \in DOMAIN portfolio :
            SellStarts(t, id) =>
                /\ SellsInProgress(id) = {}
                /\ portfolio[id].status = "active"]_vars

\* the monitoring thread waits for the receipt of a sale of position 1 in a
\* sweep that follows one that saw a failure
C27_Witness ==
    /\ threads.started
    /\ \E t \in DOMAIN threads.of :
        /\ threads.of[t].selling = 1
        /\ threads.of[t].pc = "receipt"
        /\ threads.of[t].kind = "swap"
        /\ threads.of[t].prev_failed
        /\ Len(portfolio) = 1

\* the threads that hold a nonce they have fetched and not yet broadcast
BetweenFetchAndBroadcast ==
    {t \in DOMAIN threads.of : threads.of[t].pc = "signed"}

\* C28, as the specification states it: while the discovery loop buys and
\* the exit loop approves and sells from the same wallet, at most one
\* transaction is between its nonce fetch and its broadcast at any time, so
\* no two transactions are broadcast with the same nonce.
C28_Original ==
    threads.started =>
        /\ Cardinality(BetweenFetchAndBroadcast) <= 1
        /\ \A t, u \in DOMAIN threads.of :
            (/\ t # u
             /\ threads.of[t].pc = "receipt"
             /\ threads.of[u].pc = "receipt")
            => threads.of[t].nonce # threads.of[u].nonce

\* the attempts of the call that went on to the approval and the swap
PastDustCheck ==
    {i \in DOMAIN sell.attempts : sell.attempts[i].out # "read_raised"}

\* the swaps the attempts of the call broadcast
SwapsOf(atts) == {i \in DOMAIN atts : swap_sent(atts[i].out)}

\* C31: when the amount of an attempt is below the dust threshold
\* execute_sell returns skipped at once: the attempt sends no approval and
\* no swap, no attempt follows, no position changes status and nothing is
\* queued; and no attempt goes on to the approval with such an amount.
C31_DustSkips ==
    /\ [](SellReturned =>
            /\ \A i \in PastDustCheck : sell.attempts[i].amount >= 1
            /\ sell.ret = "skipped" =>
                    /\ sell.sent = Cardinality(SwapsOf(sell.attempts))
                    /\ sell.status_writes = 0
                    /\ sell.queued = <<>>)
    /\ [][SellRuns /\ sell'.ret = "skipped" =>
            portfolio' = portfolio /\ transactions' = transactions]_vars

\* the call was to sell the wallet's balance; two attempts failed reading
\* it, the third read a balance of nothing and the call returned skipped
C31_Witness ==
    /\ SellReturned
    /\ sell.ret = "skipped"
    /\ Len(sell.attempts) = 2
    /\ sell.args.portfolio_id # 0
    /\ portfolio[sell.args.portfolio_id].status = "active"

\* the attempts of the call whose approval receipt had status 0
ApprovalsReverted ==
    {i \in DOMAIN sell.attempts : sell.attempts[i].out = "approval_reverted"}

\* C32: an approval whose receipt shows a failure ends the whole call of
\* execute_sell: the call returns failed with the approval failure as its
\* reason, the attempt is the last one and broadcasts no swap, no position
\* changes status and nothing is queued.
C32_ApprovalAborts ==
    /\ [](SellReturned /\ ApprovalsReverted # {} =>
            /\ ApprovalsReverted = {Len(sell.attempts)}
            /\ sell.ret = "failed"
            /\ sell.reasons = <<"Approval failed">>
            /\ sell.sent = Cardinality(SwapsOf(sell.attempts))
            /\ sell.status_writes = 0
            /\ sell.queued = <<>>)
    /\ [][SellRuns /\ (\E i \in DOMAIN sell'.attempts :
                            sell'.attempts[i].out = "approval_reverted") =>
            portfolio' = portfolio /\ transactions' = transactions]_vars

\* the first attempt of a sell of an active position raised before the
\* approval, the approval of the second got a receipt with status 0, and
\* the call returned although an attempt was left
C32_Witness ==
    /\ SellReturned
    /\ ApprovalsReverted = {2}
    /\ Len(sell.attempts) = 2
    /\ sell.attempts[1].out = "error"
    /\ MarksSold(sell.args)
    /\ portfolio[sell.args.portfolio_id].status = "active"

\* the loop has computed the parameters of an attempt
Computed == strategy.op = "execute_sell" /\ strategy.at = "computed"

\* a failure reason of the call speaks of price impact or of slippage
SlippageMentioned ==
    \E i \in DOMAIN strategy.failure_reasons :
        strategy.failure_reasons[i] \in {PriceImpactReason, SlippageMessage}

\* a failure reason of the call speaks of gas
GasMentioned ==
    \E i \in DOMAIN strategy.failure_reasons :
        strategy.failure_reasons[i] \in {OutOfGasHint, IntrinsicGasMessage}

\* C33: at attempt n the extra slippage is min(10 n, 30) points, and 15
\* points more when a failure reason of the call holds "price impact" or
\* "slippage" in whatever case; it never exceeds 49 points; the minimum
\* output is the quote less the configured slippage and the extra, in
\* hundredths of the quote.
C33_ExtraSlippage ==
    Computed =>
        LET n == strategy.attempt
            base == IF 10 * n <= 30 THEN 10 * n ELSE 30
            extra == strategy.extra_slippage
        IN  /\ extra = base + (IF SlippageMentioned THEN 15 ELSE 0)
            /\ extra <= 49
            /\ strategy.min_bnb = strategy.estimated_bnb * (100 - (SLIPPAGE + extra))

\* the fifth attempt after a revert for price impact: 30 points and 15 more
C33_Witness ==
    /\ Computed
    /\ strategy.attempt = 4
    /\ Holds(strategy.failure_reasons, PriceImpactReason)
    /\ ~Holds(strategy.failure_reasons, SlippageMessage)
    /\ strategy.extra_slippage = 45

\* C34: at attempt n the gas-price multiplier is GAS_MULTIPLIER (1 + 0.2 n)
\* when no failure reason of the call mentions gas and 1.5 times that when
\* one does; so the fourth attempt after three failures that mention gas has
\* a greater multiplier than the fourth attempt after failures that do not.
C34_GasMultiplier ==
    Computed =>
        LET n == strategy.attempt
            clean == GAS_MULTIPLIER * (10 + 2 * n) * 10
        IN  /\ ~GasMentioned => strategy.gas_multiplier = clean
            /\ GasMentioned => 10 * strategy.gas_multiplier = 15 * clean
            /\ (/\ n = 3
                /\ \A i \in DOMAIN strategy.failure_reasons :
                        strategy.failure_reasons[i] = IntrinsicGasMessage)
               => strategy.gas_multiplier > clean

\* the fourth attempt after three exceptions that mention gas: 1.2 * 1.6 * 1.5
C34_Witness ==
    /\ Computed
    /\ strategy.attempt = 3
    /\ strategy.failure_reasons =
            <<IntrinsicGasMessage, IntrinsicGasMessage, IntrinsicGasMessage>>
    /\ strategy.gas_multiplier = 2880

\* the step in which the receipt of a swap is looked at
ReceiptSeen ==
    /\ Computed
    /\ strategy'.op = "execute_sell"
    /\ strategy'.receipt # NoReceipt

\* the step appends the OUT_OF_GAS tag to failure_reasons
HintAppended ==
    /\ Len(strategy'.failure_reasons) > Len(strategy.failure_reasons)
    /\ strategy'.failure_reasons[Len(strategy'.failure_reasons)] = OutOfGasHint

\* C35, as the specification states it: a receipt that shows a gas usage of
\* 95% of the limit or more appends the OUT_OF_GAS tag to the failure
\* reasons, also when its status is success.
C35_Original ==
    [][ReceiptSeen /\ strategy'.receipt.gas_usage_percent >= 95 => HintAppended]_vars

\* C35, amended: a receipt appends the OUT_OF_GAS tag to the failure reasons
\* of the call when, and only when, its status is failure and it shows a
\* gas usage above 95% of the limit; every call starts with no failure
\* reasons, and its first attempt has the parameters of a clean history
\* whatever the call before recorded.
C35_HintOnFailure ==
    /\ [][ReceiptSeen =>
            (HintAppended <=> /\ strategy'.receipt.status = 0
                              /\ strategy'.receipt.gas_usage_percent > 95)]_vars
    /\ [](strategy.op = "execute_sell" /\ strategy.attempt = 0 =>
            /\ strategy.at # "returned" => strategy.failure_reasons = <<>>
            /\ strategy.at = "computed" =>
                    /\ strategy.gas_multiplier = GAS_MULTIPLIER * 100
                    /\ strategy.extra_slippage = 0)

\* in a call that follows one that recorded the tag, the first swap
\* reverted having used 96% of its gas limit, and the tag is the second of
\* the two reasons the call holds
C35_Witness ==
    /\ strategy.op = "execute_sell"
    /\ strategy.hinted_before
    /\ strategy.at = "top"
    /\ strategy.attempt = 1
    /\ strategy.receipt = [status |-> 0, gas_usage_percent |-> 96]
    /\ strategy.failure_reasons = <<UnknownReason, OutOfGasHint>>

\* C36, as the specification states it: one call of execute_buy broadcasts
\* no second buy once one it broadcast can still be or has been confirmed,
\* so the call sends at most one buy that is not known to have reverted and
\* at most one of its buys is confirmed.
C36_Original ==
    BuyReturned => buy.sent <= 1 /\ buy.confirmed <= 1

\* the amount the confirmed swap of the call sold
AmountSold(record) == record.attempts[Len(record.attempts)].amount

\* C37, as the specification states it: when a call of execute_sell sets a
\* position to sold, the confirmed swap sold the amount the position
\* records as held; a sell confirmed for a reduced amount leaves the status
\* as it was.
C37_Original ==
    [][SellRuns /\ sell'.status_writes = 1 =>
            AmountSold(sell') = portfolio[sell.args.portfolio_id].amount_tokens]_vars

\* thread t starts a sweep in this step: it has read the active positions
SweepReads(t) ==
    /\ threads.started
    /\ threads.of[t].pc = "sleeping"
    /\ threads'.of[t].pc = "started"

\* the ids of the entries a thread holds
EntryIds(th) == {th.entries[k].id : k \in DOMAIN th.entries}

\* C38: the status of a position only moves from active to sold. A position
\* that is sold stays sold, is in no set of active positions read after
\* that, and no sweep is in a sale of it.
C38_SoldIsFinal ==
    /\ [](\A id \in DOMAIN portfolio : portfolio[id].status \in {"active", "sold"})
    /\ [][\A id \in DOMAIN portfolio :
            portfolio[id].status = "sold" => portfolio'[id].status = "sold"]_vars
    /\ [][\A t \in DOMAIN threads.of :
            SweepReads(t) =>
                \A id \in EntryIds(threads'.of[t]) : portfolio[id].status = "active"]_vars
    /\ [](threads.started =>
            \A t \in DOMAIN threads.of :
                threads.of[t].selling # 0 =>
                    portfolio[threads.of[t].selling].status = "active")

\* position 1 is sold, and the sweep that started after the sale read
\* position 2 alone
C38_Witness ==
    /\ threads.started
    /\ Len(portfolio) = 2
    /\ portfolio[1].status = "sold"
    /\ \E t \in DOMAIN threads.of :
        /\ threads.of[t].pc = "started"
        /\ EntryIds(threads.of[t]) = {2}

\* C39, as the specification states it: no token address has two active
\* positions; whatever events, block scans and single-token runs come, a
\* token that has an active position is not bought again.
C39_Original ==
    \A i, j \in DOMAIN portfolio :
        (/\ i # j
         /\ portfolio[i].status = "active"
         /\ portfolio[j].status = "active")
        => portfolio[i].token_address # portfolio[j].token_address

\* handle_new_pair calls execute_buy in this step
DiscoveryBuys ==
    /\ pc = "analysed"
    /\ pc' = "handled"
    /\ req.mode = "discovery"
    /\ buy'.called
    /\ buy' # buy

\* C40: the amount handle_new_pair passes to execute_buy exceeds neither
\* MAX_INVESTMENT_PER_TOKEN nor the liquidity the analysis found divided by
\* LIQUIDITY_SAFETY_MULTIPLIER, which is 1.5.
C40_InvestmentCapped ==
    [][DiscoveryBuys =>
            /\ buy'.amount <= MAX_INVESTMENT_PER_TOKEN
            /\ 3 * buy'.amount <= 2 * loc.liquidity]_vars

\* the handler of an event has called execute_buy with the configured
\* maximum for a token whose pair holds the minimum liquidity or more
C40_Witness ==
    /\ pc = "handled"
    /\ req.mode = "discovery"
    /\ buy.called
    /\ buy.token = req.token
    /\ buy.amount = MAX_INVESTMENT_PER_TOKEN
    /\ loc.liquidity >= MIN_LIQUIDITY

====
